---- MODULE Spec2Model ----
(***************************************************************************)
(* State-machine model of the comp note store of the TFT notes app         *)
(* (src/renderer/renderer.js, src/main.js).                                *)
(*                                                                         *)
(* The renderer is single threaded: every event handler and timer callback *)
(* runs to completion, so each handler is one atomic action.  What is      *)
(* asynchronous is modelled as separate actions: the debounced notes save, *)
(* the debounced items save of each view closure, the 10 ms deferred       *)
(* switch after a delete, and the answer of the native confirm dialog.     *)
(*                                                                         *)
(* Comp names are sequences of one-character strings, so that trimming,    *)
(* lower-casing, suffixing and locale ordering are computed, not assumed.  *)
(* A record is a TLA+ record whose optional fields (tags, color) may be    *)
(* missing from its DOMAIN, as a JavaScript object may lack a property.    *)
(***************************************************************************)
EXTENDS Integers, Sequences, FiniteSets, TLC, Bags

VARIABLES
    notesData,      \* let notesData: key -> record (or Undefined)
    file,           \* parsed content of data/notes.json
    currentComp,    \* let currentComp
    editor,         \* innerHTML of #comp-notes-editor
    saveTimeout,    \* the number of pending notes-save timers (the handle names the newest)
    view,           \* closure of the last switchToComp: comp, notesText, itemsArr
    nav,            \* comps that have a button in #comp-nav
    tagSel,         \* value of #comp-tag-select
    itemsInput,     \* value of #comp-items-input, as its comma separated segments
    itemsTimer,     \* TRUE while the current view's itemsSaveTimeout is pending
    staleItems,     \* pending itemsSaveTimeout closures of earlier views
    pendingSwitch,  \* targets of pending setTimeout(switchToComp, 10)
    pendingConfirm, \* bag of confirm-delete requests awaiting the host's answer
    modal,          \* #delete-comp-modal: open flag and data-comp-to-delete
    msg,            \* the alert/toast the last handler showed ("none" if none)
    imagesDir,      \* names of the files in data/images
    pastes,         \* image pastes in flight: FileReader loads and save-image calls
    now,            \* the clock read by new Date()
    horizon,        \* the clock value at which the model stops (never changes)
    closed,         \* TRUE once the window has been closed
    last            \* history: the handler that ran last and its arguments

vars == <<notesData, file, currentComp, editor, saveTimeout, view, nav, tagSel,
          itemsInput, itemsTimer, staleItems, pendingSwitch, pendingConfirm,
          modal, msg, imagesDir, pastes, now, horizon, closed, last>>

-----------------------------------------------------------------------------
(* Bounds of the model *)

\* The clock stops the model: every event happens at a later clock value than
\* the one before it, and no event happens once the clock has reached the
\* horizon.  MaxClock is the horizon of Spec.
MaxClock == 4
\* Cap on the number of keys of the store for Add and Import.
MaxComps == 3
\* Cap on confirm-delete requests in flight.
MaxPending == 2
\* Cap on pending items timers of earlier views.
MaxStale == 1
\* The horizon of SpecDeep, which runs fewer handlers for longer.
MaxDeep == 8
\* The horizon of SpecClose.
MaxClose == 5

-----------------------------------------------------------------------------
(* JavaScript values *)

Null == <<"null">>
Undefined == [undefined |-> TRUE]
NoView == [comp |-> Null, notesText |-> "", itemsArr |-> <<>>]

\* v && typeof v === 'object' (a value of the store is a record or undefined)
IsObject(v) == v # Undefined

\* k in obj
HasKey(nd, k) == k \in DOMAIN nd
\* obj[k]
Get(nd, k) == IF k \in DOMAIN nd THEN nd[k] ELSE Undefined
\* obj[k] = v
Put(nd, k, v) == [j \in DOMAIN nd \cup {k} |-> IF j = k THEN v ELSE nd[j]]
\* delete obj[k]
Del(nd, k) == [j \in DOMAIN nd \ {k} |-> nd[j]]
\* rec.f = v
SetField(r, f, v) == [g \in DOMAIN r \cup {f} |-> IF g = f THEN v ELSE r[g]]
\* notesData[k] && typeof notesData[k] === 'object'
IsObjectAt(nd, k) == HasKey(nd, k) /\ IsObject(nd[k])

EmptyStore == [k \in {} |-> Undefined]

-----------------------------------------------------------------------------
(* Strings: names are sequences of characters *)

Imported == <<"-", "i", "m", "p", "o", "r", "t", "e", "d">>

\* Collation order of the characters the model uses (whitespace, punctuation,
\* digits, letters), as localeCompare orders them at the primary level.
Alphabet == <<" ", "-", "2", "3", "4", "5", "a", "b", "c", "d", "e", "i", "m", "o", "p", "r", "t">>

IsUpper(ch) == ch \in {"A", "B", "C"}
ToLowerChar(ch) == CASE ch = "A" -> "a" [] ch = "B" -> "b" [] ch = "C" -> "c" [] OTHER -> ch
toLowerCase(s) == [i \in 1..Len(s) |-> ToLowerChar(s[i])]

RECURSIVE trimStart(_)
trimStart(s) == IF s # <<>> /\ Head(s) = " " THEN trimStart(Tail(s)) ELSE s
RECURSIVE trimEnd(_)
trimEnd(s) == IF s # <<>> /\ s[Len(s)] = " " THEN trimEnd(SubSeq(s, 1, Len(s) - 1)) ELSE s
trim(s) == trimEnd(trimStart(s))

CharRank(ch) == CHOOSE i \in 1..Len(Alphabet) : Alphabet[i] = ToLowerChar(ch)

\* Lexicographic comparison of the primary keys (case folded), then the
\* tertiary difference: at the first place where only case differs, the
\* lower-case letter sorts first.  The result is -1, 0 or 1.
RECURSIVE PrimaryCompare(_, _)
PrimaryCompare(a, b) ==
    IF a = <<>> /\ b = <<>> THEN 0
    ELSE IF a = <<>> THEN -1
    ELSE IF b = <<>> THEN 1
    ELSE IF CharRank(Head(a)) < CharRank(Head(b)) THEN -1
    ELSE IF CharRank(Head(a)) > CharRank(Head(b)) THEN 1
    ELSE PrimaryCompare(Tail(a), Tail(b))

RECURSIVE CaseCompare(_, _)
CaseCompare(a, b) ==
    IF a = <<>> \/ b = <<>> THEN 0
    ELSE IF Head(a) = Head(b) THEN CaseCompare(Tail(a), Tail(b))
    ELSE IF IsUpper(Head(b)) THEN -1 ELSE 1

localeCompare(a, b) ==
    LET p == PrimaryCompare(a, b)
    IN IF p # 0 THEN p ELSE CaseCompare(a, b)

\* keys.sort((a, b) => a.localeCompare(b)): the keys are distinct, so the
\* sorted array is the least key followed by the rest, sorted
RECURSIVE SortKeys(_)
SortKeys(keys) ==
    IF keys = {} THEN <<>>
    ELSE LET m == CHOOSE k \in keys : \A j \in keys : localeCompare(k, j) <= 0
         IN <<m>> \o SortKeys(keys \ {m})

\* Object.keys(notesData).sort((a, b) => a.localeCompare(b))
getCompOrder(nd) == SortKeys(DOMAIN nd)

\* compOrder.indexOf(comp), 0-based, -1 when absent
indexOf(seq, x) ==
    IF \E i \in 1..Len(seq) : seq[i] = x
    THEN (CHOOSE i \in 1..Len(seq) : seq[i] = x) - 1
    ELSE -1

-----------------------------------------------------------------------------
(* The items input: its text is modelled as the segments between commas,   *)
(* each with its leading blank and its text.                               *)

Seg(lead, text) == [lead |-> lead, text |-> text]

RECURSIVE FilterNonEmpty(_)
FilterNonEmpty(q) ==
    IF q = <<>> THEN <<>>
    ELSE IF Head(q) = "" THEN FilterNonEmpty(Tail(q))
    ELSE <<Head(q)>> \o FilterNonEmpty(Tail(q))

\* itemsInput.value.split(',').map(s => s.trim()).filter(Boolean)
ParseItems(segs) == FilterNonEmpty([i \in 1..Len(segs) |-> segs[i].text])

\* itemsArr.join(', '); an empty array gives the empty string, one empty segment
JoinItems(items) ==
    IF items = <<>> THEN <<Seg("", "")>>
    ELSE [i \in 1..Len(items) |-> Seg(IF i = 1 THEN "" ELSE " ", items[i])]

\* The <option> values of #comp-tag-select besides "".
TagOptions == {"Reroll", "Fast-8"}

-----------------------------------------------------------------------------
(* Persistence *)

\* JSON.stringify(notesData, null, 2) followed by JSON.parse: a property whose
\* value is undefined is left out of the text.
Serialize(nd) == [k \in {j \in DOMAIN nd : nd[j] # Undefined} |-> nd[k]]

\* fs.writeFileSync(NOTES_FILE, ...): ok = FALSE is a write that throws
WriteFile(f, nd, ok) == IF ok THEN Serialize(nd) ELSE f

\* createNavigation with an empty search box and no tag filter
createNavigation(nd) == DOMAIN nd

\* One record of normalizeNotesData
NormalizeRecord(val, t) ==
    IF IsObject(val)
    THEN LET r1 == IF "notes" \in DOMAIN val THEN val ELSE SetField(val, "notes", "")
             r2 == IF "items" \in DOMAIN r1 THEN r1 ELSE SetField(r1, "items", <<>>)
             r3 == IF "tags" \in DOMAIN r2 THEN r2 ELSE SetField(r2, "tags", <<>>)
             r4 == IF "lastEdited" \in DOMAIN r3 THEN r3 ELSE SetField(r3, "lastEdited", t)
         IN r4
    ELSE [notes |-> "", items |-> <<>>, tags |-> <<>>, lastEdited |-> t]

normalizeNotesData(nd, t) == [k \in DOMAIN nd |-> NormalizeRecord(nd[k], t)]

\* loadNotes when the file exists and parses
loadNotes(f, t) == normalizeNotesData(f, t)

-----------------------------------------------------------------------------
(* The renderer's handlers, as functions of the renderer state s (a record *)
(* with one field per variable), the clock value t and the outcome of each *)
(* file write.                                                             *)

State == [notesData |-> notesData, file |-> file, currentComp |-> currentComp,
          editor |-> editor, saveTimeout |-> saveTimeout, view |-> view, nav |-> nav,
          tagSel |-> tagSel, itemsInput |-> itemsInput, itemsTimer |-> itemsTimer,
          staleItems |-> staleItems, pendingSwitch |-> pendingSwitch,
          pendingConfirm |-> pendingConfirm, modal |-> modal, msg |-> msg,
          imagesDir |-> imagesDir, pastes |-> pastes]

ModalHidden == [open |-> FALSE, target |-> Null]

saveNotes(s, t, w) ==
    IF s.currentComp = Null THEN s
    ELSE LET c == s.currentComp
             nd1 == IF IsObjectAt(s.notesData, c)
                    THEN [s.notesData EXCEPT ![c] =
                              SetField(SetField(@, "notes", s.editor), "lastEdited", t)]
                    ELSE Put(s.notesData, c,
                             [notes |-> s.editor, items |-> <<>>, lastEdited |-> t])
         IN IF w
            THEN [s EXCEPT !.notesData = nd1,
                           !.file = WriteFile(s.file, nd1, TRUE),
                           !.nav = createNavigation(nd1)]
            ELSE [s EXCEPT !.notesData = nd1]

\* The closure that the current view's items timer runs
ViewClosure(s) == [comp |-> s.view.comp, text |-> s.itemsInput, notesText |-> s.view.notesText]

\* switchToComp without the saveNotes() of lines 800-802: what C5 must tell apart
switchToComp_NoSave(s, comp, t, w) ==
    LET s1 == s
        nd == s1.notesData
        isObj == IsObjectAt(nd, comp)
        notesText == IF isObj THEN nd[comp].notes ELSE ""
        itemsArr == IF isObj THEN nd[comp].items ELSE <<>>
        currentTag == IF isObj /\ "tags" \in DOMAIN nd[comp] /\ Len(nd[comp].tags) > 0
                      THEN nd[comp].tags[1] ELSE ""
    IN [s1 EXCEPT !.currentComp = comp,
                  !.view = [comp |-> comp, notesText |-> notesText, itemsArr |-> itemsArr],
                  !.itemsInput = JoinItems(itemsArr),
                  !.itemsTimer = FALSE,
                  !.staleItems = IF s.itemsTimer THEN @ \cup {ViewClosure(s)} ELSE @,
                  !.tagSel = IF currentTag \in TagOptions THEN currentTag ELSE "",
                  !.editor = notesText]

\* switchToComp(comp)
switchToComp(s, comp, t, w) ==
    LET s1 == saveNotes(s, t, w)
        nd == s1.notesData
        isObj == IsObjectAt(nd, comp)
        notesText == IF isObj THEN nd[comp].notes ELSE ""
        itemsArr == IF isObj THEN nd[comp].items ELSE <<>>
        currentTag == IF isObj /\ "tags" \in DOMAIN nd[comp] /\ Len(nd[comp].tags) > 0
                      THEN nd[comp].tags[1] ELSE ""
    IN [s1 EXCEPT !.currentComp = comp,
                  !.view = [comp |-> comp, notesText |-> notesText, itemsArr |-> itemsArr],
                  !.itemsInput = JoinItems(itemsArr),
                  !.itemsTimer = FALSE,
                  !.staleItems = IF s.itemsTimer THEN @ \cup {ViewClosure(s)} ELSE @,
                  !.tagSel = IF currentTag \in TagOptions THEN currentTag ELSE "",
                  !.editor = notesText]

saveItemsForComp(s, cl, t, w) ==
    LET newItems == ParseItems(cl.text)
        tags == IF s.tagSel # "" THEN <<s.tagSel>> ELSE <<>>
        nd1 == IF IsObjectAt(s.notesData, cl.comp)
               THEN [s.notesData EXCEPT ![cl.comp] =
                         SetField(SetField(SetField(@, "items", newItems), "tags", tags),
                                  "lastEdited", t)]
               ELSE Put(s.notesData, cl.comp,
                        [notes |-> cl.notesText, items |-> newItems, tags |-> tags,
                         lastEdited |-> t])
    IN [s EXCEPT !.notesData = nd1,
                 !.file = WriteFile(s.file, nd1, w),
                 !.nav = createNavigation(nd1)]

\* The tag change without notesData[comp].lastEdited = now of line 1039: what
\* C15 must tell apart
tagChange_KeepsLastEdited(s, val, t, w) ==
    LET comp == s.view.comp
        nd0 == IF IsObjectAt(s.notesData, comp) THEN s.notesData
               ELSE Put(s.notesData, comp,
                        [notes |-> s.view.notesText, items |-> s.view.itemsArr,
                         tags |-> <<>>, lastEdited |-> t])
        nd1 == [nd0 EXCEPT ![comp] = SetField(@, "tags", IF val # "" THEN <<val>> ELSE <<>>)]
    IN [s EXCEPT !.tagSel = val,
                 !.notesData = nd1,
                 !.file = WriteFile(s.file, nd1, w),
                 !.nav = IF w THEN createNavigation(nd1) ELSE @]

tagChange(s, val, t, w) ==
    LET comp == s.view.comp
        nd0 == IF IsObjectAt(s.notesData, comp) THEN s.notesData
               ELSE Put(s.notesData, comp,
                        [notes |-> s.view.notesText, items |-> s.view.itemsArr,
                         tags |-> <<>>, lastEdited |-> t])
        nd1 == [nd0 EXCEPT ![comp] =
                    SetField(SetField(@, "tags", IF val # "" THEN <<val>> ELSE <<>>),
                             "lastEdited", t)]
    IN [s EXCEPT !.tagSel = val,
                 !.notesData = nd1,
                 !.file = WriteFile(s.file, nd1, w),
                 !.nav = IF w THEN createNavigation(nd1) ELSE @]

colorClick(s, col, t, w) ==
    LET comp == s.view.comp
        nd0 == IF IsObjectAt(s.notesData, comp) THEN s.notesData
               ELSE Put(s.notesData, comp,
                        [notes |-> "", items |-> <<>>, tags |-> <<>>, lastEdited |-> t])
        nd1 == [nd0 EXCEPT ![comp] = SetField(SetField(@, "color", col), "lastEdited", t)]
    IN [s EXCEPT !.notesData = nd1,
                 !.file = WriteFile(s.file, nd1, w),
                 !.nav = IF w THEN createNavigation(nd1) ELSE @,
                 !.msg = IF w THEN "none" ELSE "colorSaveError"]

\* Add a new composition (the modal's add button or Enter in its input)
addComp(s, raw, t, w1, w2, w3) ==
    LET compName == trim(raw)
        trimmedName == toLowerCase(compName)
    IN IF compName = <<>> THEN s
       ELSE IF HasKey(s.notesData, trimmedName) THEN [s EXCEPT !.msg = "addCompExists"]
       ELSE LET s1 == saveNotes(s, t, w1)
                nd1 == Put(s1.notesData, trimmedName,
                           [notes |-> "", items |-> <<>>, tags |-> <<>>, lastEdited |-> t])
            IN IF ~w2
               THEN [s1 EXCEPT !.notesData = nd1, !.msg = "addSaveError"]
               ELSE switchToComp([s1 EXCEPT !.notesData = nd1,
                                            !.file = WriteFile(s1.file, nd1, TRUE),
                                            !.nav = createNavigation(nd1)],
                                 trimmedName, t, w3)

\* finishRename without the check newKey in notesData: what C12 must tell apart
finishRename_NoExistsCheck(s, newKeyRaw, t, w1, w2) ==
    LET oldKey == s.view.comp
        newKey == toLowerCase(trim(newKeyRaw))
    IN IF newKey = <<>> THEN [s EXCEPT !.msg = "invalidName"]
       ELSE IF newKey = oldKey THEN s
       ELSE LET moved == Put(s.notesData, newKey, Get(s.notesData, oldKey))
            IN IF ~IsObject(moved[newKey])
               THEN [s EXCEPT !.notesData = moved, !.msg = "renameError"]
               ELSE LET nd1 == Del([moved EXCEPT ![newKey] = SetField(@, "lastEdited", t)],
                                   oldKey)
                    IN IF ~w1
                       THEN [s EXCEPT !.notesData = nd1, !.msg = "renameError"]
                       ELSE switchToComp([s EXCEPT !.notesData = nd1,
                                                   !.file = WriteFile(s.file, nd1, TRUE)],
                                         newKey, t, w2)

\* finishRename of the closure of the current view (oldKey is the view's comp)
finishRename(s, newKeyRaw, t, w1, w2) ==
    LET oldKey == s.view.comp
        newKey == toLowerCase(trim(newKeyRaw))
    IN IF newKey = <<>> THEN [s EXCEPT !.msg = "invalidName"]
       ELSE IF newKey = oldKey THEN s
       ELSE IF HasKey(s.notesData, newKey) THEN [s EXCEPT !.msg = "renameExists"]
       ELSE LET moved == Put(s.notesData, newKey, Get(s.notesData, oldKey))
            IN IF ~IsObject(moved[newKey])
               \* notesData[newKey].lastEdited = ... throws a TypeError, caught
               THEN [s EXCEPT !.notesData = moved, !.msg = "renameError"]
               ELSE LET nd1 == Del([moved EXCEPT ![newKey] = SetField(@, "lastEdited", t)],
                                   oldKey)
                    IN IF ~w1
                       THEN [s EXCEPT !.notesData = nd1, !.msg = "renameError"]
                       ELSE switchToComp([s EXCEPT !.notesData = nd1,
                                                   !.file = WriteFile(s.file, nd1, TRUE)],
                                         newKey, t, w2)

\* deleteComp with the guard compOrder.length <= 0: what C3 must tell apart
deleteComp_NoLastGuard(s, arg, t, w1, w2) ==
    LET comp == IF arg = Null THEN s.modal.target ELSE arg
        compOrder == getCompOrder(s.notesData)
    IN IF comp = Null THEN [s EXCEPT !.modal = ModalHidden]
       ELSE IF Len(compOrder) <= 0
       THEN [s EXCEPT !.msg = "deleteLastComp", !.modal = ModalHidden]
       ELSE LET s1 == saveNotes(s, t, w1)
                currentIndex == indexOf(compOrder, comp)
                switchTo == IF s1.currentComp # comp THEN Null
                            ELSE IF currentIndex < Len(compOrder) - 1
                            THEN compOrder[currentIndex + 2]
                            ELSE IF currentIndex > 0 THEN compOrder[currentIndex]
                            ELSE Null
            IN IF ~HasKey(s1.notesData, comp) THEN [s1 EXCEPT !.modal = ModalHidden]
               ELSE LET nd1 == Del(s1.notesData, comp)
                    IN IF ~w2
                       \* rollback: notesData[comp] = compData
                       THEN [s1 EXCEPT !.notesData = Put(nd1, comp, s1.notesData[comp]),
                                       !.msg = "deleteError", !.modal = ModalHidden]
                       ELSE LET wasCurrentComp == (s1.currentComp = comp)
                                defer == wasCurrentComp /\ switchTo # Null
                                             /\ HasKey(nd1, switchTo)
                            IN [s1 EXCEPT
                                  !.notesData = nd1,
                                  !.file = WriteFile(s1.file, nd1, TRUE),
                                  !.modal = ModalHidden,
                                  !.currentComp = IF wasCurrentComp THEN Null ELSE @,
                                  !.nav = createNavigation(nd1),
                                  !.pendingSwitch = IF defer THEN @ \cup {switchTo} ELSE @,
                                  !.view = IF wasCurrentComp /\ ~defer THEN NoView ELSE @]

\* deleteComp whose catch does not restore notesData[comp]: what C10 must tell
\* apart
deleteComp_NoRollback(s, arg, t, w1, w2) ==
    LET comp == IF arg = Null THEN s.modal.target ELSE arg
        compOrder == getCompOrder(s.notesData)
    IN IF comp = Null THEN [s EXCEPT !.modal = ModalHidden]
       ELSE IF Len(compOrder) <= 1
       THEN [s EXCEPT !.msg = "deleteLastComp", !.modal = ModalHidden]
       ELSE LET s1 == saveNotes(s, t, w1)
                currentIndex == indexOf(compOrder, comp)
                switchTo == IF s1.currentComp # comp THEN Null
                            ELSE IF currentIndex < Len(compOrder) - 1
                            THEN compOrder[currentIndex + 2]
                            ELSE IF currentIndex > 0 THEN compOrder[currentIndex]
                            ELSE Null
            IN IF ~HasKey(s1.notesData, comp) THEN [s1 EXCEPT !.modal = ModalHidden]
               ELSE LET nd1 == Del(s1.notesData, comp)
                    IN IF ~w2
                       THEN [s1 EXCEPT !.notesData = nd1,
                                       !.msg = "deleteError", !.modal = ModalHidden]
                       ELSE LET wasCurrentComp == (s1.currentComp = comp)
                                defer == wasCurrentComp /\ switchTo # Null
                                             /\ HasKey(nd1, switchTo)
                            IN [s1 EXCEPT
                                  !.notesData = nd1,
                                  !.file = WriteFile(s1.file, nd1, TRUE),
                                  !.modal = ModalHidden,
                                  !.currentComp = IF wasCurrentComp THEN Null ELSE @,
                                  !.nav = createNavigation(nd1),
                                  !.pendingSwitch = IF defer THEN @ \cup {switchTo} ELSE @,
                                  !.view = IF wasCurrentComp /\ ~defer THEN NoView ELSE @]

\* deleteComp(comp); arg = Null is the call deleteComp() of the modal's button
deleteComp(s, arg, t, w1, w2) ==
    LET comp == IF arg = Null THEN s.modal.target ELSE arg
        compOrder == getCompOrder(s.notesData)
    IN IF comp = Null THEN [s EXCEPT !.modal = ModalHidden]
       ELSE IF Len(compOrder) <= 1
       THEN [s EXCEPT !.msg = "deleteLastComp", !.modal = ModalHidden]
       ELSE LET s1 == saveNotes(s, t, w1)
                currentIndex == indexOf(compOrder, comp)
                switchTo == IF s1.currentComp # comp THEN Null
                            ELSE IF currentIndex < Len(compOrder) - 1
                            THEN compOrder[currentIndex + 2]
                            ELSE IF currentIndex > 0 THEN compOrder[currentIndex]
                            ELSE Null
            IN IF ~HasKey(s1.notesData, comp) THEN [s1 EXCEPT !.modal = ModalHidden]
               ELSE LET nd1 == Del(s1.notesData, comp)
                    IN IF ~w2
                       \* rollback: notesData[comp] = compData
                       THEN [s1 EXCEPT !.notesData = Put(nd1, comp, s1.notesData[comp]),
                                       !.msg = "deleteError", !.modal = ModalHidden]
                       ELSE LET wasCurrentComp == (s1.currentComp = comp)
                                defer == wasCurrentComp /\ switchTo # Null
                                             /\ HasKey(nd1, switchTo)
                            IN [s1 EXCEPT
                                  !.notesData = nd1,
                                  !.file = WriteFile(s1.file, nd1, TRUE),
                                  !.modal = ModalHidden,
                                  !.currentComp = IF wasCurrentComp THEN Null ELSE @,
                                  !.nav = createNavigation(nd1),
                                  !.pendingSwitch = IF defer THEN @ \cup {switchTo} ELSE @,
                                  !.view = IF wasCurrentComp /\ ~defer THEN NoView ELSE @]

\* main.js, ipcMain.handle('confirm-delete'): the answer of the host for what
\* dialog.showMessageBox does ("Delete", "Cancel" or "throws")
confirmDeleteHandler(dialog) == dialog = "Delete"

\* ipcRenderer.invoke('confirm-delete', comp): rejected when the host has no
\* handler for the channel (the main.js of src/unnamed/part_001)
HostAnswers == {"Delete", "Cancel", "throws", "nohandler"}
safeInvoke(host) ==
    IF host = "nohandler" THEN [rejected |-> TRUE, value |-> FALSE]
    ELSE [rejected |-> FALSE, value |-> confirmDeleteHandler(host)]

\* showDeleteCompModal that deletes when the invoke is rejected: what C7 must
\* tell apart
showDeleteCompModal_FailureConfirms(s, comp, host, t, w1, w2) ==
    LET r == safeInvoke(host)
    IN IF r.rejected
       THEN deleteComp(s, comp, t, w1, w2)
       ELSE IF r.value THEN deleteComp(s, comp, t, w1, w2)
       ELSE s

\* showDeleteCompModal(comp) from the await on
showDeleteCompModal(s, comp, host, t, w1, w2) ==
    LET r == safeInvoke(host)
    IN IF r.rejected
       THEN [s EXCEPT !.modal = [open |-> TRUE, target |-> comp], !.msg = "ipcError"]
       ELSE IF r.value THEN deleteComp(s, comp, t, w1, w2)
       ELSE s

\* --- clipboard import ---
Suffix(i) == Imported \o (IF i > 1 THEN <<"-", ToString(i)>> ELSE <<>>)

RECURSIVE FirstFree(_, _, _)
FirstFree(nd, base, i) ==
    IF HasKey(nd, base \o Suffix(i)) THEN FirstFree(nd, base, i + 1) ELSE i

\* An import that keeps the name of the payload: what C2 must tell apart
importTarget_Overwrite(nd, name) == name

importTarget(nd, name) ==
    IF HasKey(nd, name) THEN name \o Suffix(FirstFree(nd, name, 1)) ELSE name

\* A comp of the payload is a JSON object (a record with some of the fields)
\* or a bare string [str |-> text].
IsJsonObject(data) == "str" \notin DOMAIN data

importRecord(data, t) ==
    IF ~IsJsonObject(data)
    THEN [notes |-> data.str, items |-> <<>>, lastEdited |-> t]
    ELSE LET r1 == IF "notes" \in DOMAIN data THEN data ELSE SetField(data, "notes", "")
             r2 == IF "items" \in DOMAIN r1 THEN r1 ELSE SetField(r1, "items", <<>>)
             r3 == IF "lastEdited" \in DOMAIN r2 THEN r2 ELSE SetField(r2, "lastEdited", t)
         IN r3

\* Object.entries(comps).forEach(...): comps is the sequence of the entries
RECURSIVE importLoop(_, _, _)
importLoop(nd, comps, t) ==
    IF comps = <<>> THEN nd
    ELSE importLoop(Put(nd, importTarget(nd, Head(comps).name),
                        importRecord(Head(comps).data, t)),
                    Tail(comps), t)

\* importCompsFromClipboard for a payload {comps, images: {}}
importCompsFromClipboard(s, comps, t, w) ==
    LET nd1 == importLoop(s.notesData, comps, t)
    IN IF ~w THEN [s EXCEPT !.notesData = nd1, !.msg = "importSaveError"]
       ELSE LET f1 == WriteFile(s.file, nd1, TRUE)
                nd2 == loadNotes(f1, t)
            IN [s EXCEPT !.notesData = nd2, !.file = f1,
                         !.nav = createNavigation(nd2), !.msg = "importDone"]

-----------------------------------------------------------------------------
(* Inputs of the model *)

NameA == <<"a">>
NameB == <<"b">>
NameC == <<"c">>

\* What the user types into the add and rename inputs
RawNames == {<<" ", "A">>, <<"c">>, <<" ">>}
\* What the editor can hold after an input event
NoteTexts == {"x", "y"}
\* What the user types into the items input
ItemTexts == {<<Seg("", "Bow"), Seg(" ", "Rod")>>}
\* The swatches the user clicks (two of the palette of renderColorPicker)
Palette == {"#f44336"}

RecA == [notes |-> "x", items |-> <<"Sword">>, tags |-> <<"Reroll">>, lastEdited |-> 0,
         color |-> "#4caf50"]
RecB == [notes |-> "", items |-> <<>>, tags |-> <<>>, lastEdited |-> 0]
RecImp == [notes |-> "y", items |-> <<"Rod">>, tags |-> <<"Fast-8">>, lastEdited |-> 0]

\* The documents data/notes.json may hold when the app starts
InitFiles == {EmptyStore,
              (NameA :> RecA),
              (NameA :> RecA) @@ (NameB :> RecB)}

\* The comps objects of the clipboard payloads (images: {}), as entry sequences
Entry(name, data) == [name |-> name, data |-> data]
Payloads == {<<>>,
             <<Entry(NameA, [str |-> "y"])>>,
             <<Entry(NameA, RecImp), Entry(NameA \o Imported, [notes |-> "x"])>>}

\* The outcomes of the file writes of one handler: at most one write fails
WriteOutcomes == BOOLEAN
Writes2 == {<<TRUE, TRUE>>, <<FALSE, TRUE>>, <<TRUE, FALSE>>}
Writes3 == {<<TRUE, TRUE, TRUE>>, <<FALSE, TRUE, TRUE>>, <<TRUE, FALSE, TRUE>>,
            <<TRUE, TRUE, FALSE>>}
\* The tag the user selects
TagChoices == {"", "Reroll"}

-----------------------------------------------------------------------------
(* The state machine *)

\* DOMContentLoaded: loadNotes, createNavigation, nothing selected
Started(h) ==
    /\ file \in InitFiles
    /\ notesData = loadNotes(file, 0)
    /\ nav = createNavigation(notesData)
    /\ currentComp = Null
    /\ editor = ""
    /\ saveTimeout = 0
    /\ view = NoView
    /\ tagSel = ""
    /\ itemsInput = <<Seg("", "")>>
    /\ itemsTimer = FALSE
    /\ staleItems = {}
    /\ pendingSwitch = {}
    /\ pendingConfirm = EmptyBag
    /\ modal = ModalHidden
    /\ msg = "none"
    /\ pastes = {}
    /\ now = 0
    /\ horizon = h
    /\ closed = FALSE
    /\ last = [op |-> "load", arg |-> Null]

\* ... with no file in data/images
Loaded(h) == Started(h) /\ imagesDir = {}

Init == Loaded(MaxClock)

\* The handler starts with no message shown
Fresh == [State EXCEPT !.msg = "none"]

\* The handler runs at clock value now + 1 and leaves the renderer in state r
Commit(r, op, arg) ==
    /\ ~closed
    /\ now < horizon
    /\ notesData' = r.notesData
    /\ file' = r.file
    /\ currentComp' = r.currentComp
    /\ editor' = r.editor
    /\ saveTimeout' = r.saveTimeout
    /\ view' = r.view
    /\ nav' = r.nav
    /\ tagSel' = r.tagSel
    /\ itemsInput' = r.itemsInput
    /\ itemsTimer' = r.itemsTimer
    /\ staleItems' = r.staleItems
    /\ pendingSwitch' = r.pendingSwitch
    /\ pendingConfirm' = r.pendingConfirm
    /\ modal' = r.modal
    /\ msg' = r.msg
    /\ imagesDir' = r.imagesDir
    /\ pastes' = r.pastes
    /\ now' = now + 1
    /\ horizon' = horizon
    /\ closed' = closed
    /\ last' = [op |-> op, arg |-> arg]

\* A click on a nav button
NavClick(c, w) ==
    /\ c \in nav
    /\ Commit(switchToComp(Fresh, c, now + 1, w), "switch", c)

\* debouncedSave without the clearTimeout of lines 230-232: what C27 must tell apart
debouncedSave_NoClear(s) == [s EXCEPT !.saveTimeout = @ + 1]

\* debouncedSave: clearTimeout takes the timer of the handle out of the pending
\* ones, setTimeout adds the new one
debouncedSave(s) ==
    LET cleared == IF s.saveTimeout > 0 THEN s.saveTimeout - 1 ELSE 0
    IN [s EXCEPT !.saveTimeout = cleared + 1]

\* An input event of the editor: debouncedSave
EditorInput(val) ==
    /\ view # NoView
    /\ val # editor
    /\ Commit(debouncedSave([Fresh EXCEPT !.editor = val]), "type", Null)

\* A pending notes-save timer fires: saveNotes
DebounceFire(w) ==
    /\ saveTimeout > 0
    /\ Commit(saveNotes([Fresh EXCEPT !.saveTimeout = @ - 1], now + 1, w),
              "debounce", currentComp)

\* An input event of the items input
ItemsInput(text) ==
    /\ view # NoView
    /\ text # itemsInput
    /\ Cardinality(staleItems) < MaxStale
    /\ Commit([Fresh EXCEPT !.itemsInput = text, !.itemsTimer = TRUE],
              "typeItems", view.comp)

\* Enter in the items input
ItemsEnter(w) ==
    /\ view # NoView
    /\ Commit(saveItemsForComp([Fresh EXCEPT !.itemsTimer = FALSE], ViewClosure(State),
                               now + 1, w),
              "items", view.comp)

\* The items timer of the current view fires
ItemsTimerFire(w) ==
    /\ itemsTimer
    /\ Commit(saveItemsForComp([Fresh EXCEPT !.itemsTimer = FALSE], ViewClosure(State),
                               now + 1, w),
              "items", view.comp)

\* The items timer of an earlier view fires
StaleItemsFire(cl, w) ==
    /\ cl \in staleItems
    /\ Commit(saveItemsForComp([Fresh EXCEPT !.staleItems = @ \ {cl}], cl, now + 1, w),
              "staleItems", cl.comp)

\* A change event of the tag select
TagChange(val, w) ==
    /\ view # NoView
    /\ val # tagSel
    /\ Commit(tagChange(Fresh, val, now + 1, w), "tag", view.comp)

\* A click on a colour swatch
ColorClick(col, w) ==
    /\ view # NoView
    /\ Commit(colorClick(Fresh, col, now + 1, w), "color", view.comp)

AddComp(raw, w1, w2, w3) ==
    /\ Cardinality(DOMAIN notesData) < MaxComps
    /\ Commit(addComp(Fresh, raw, now + 1, w1, w2, w3), "add", raw)

\* Enter or blur in the rename input of the current view
Rename(raw, w1, w2) ==
    /\ view # NoView
    /\ Commit(finishRename(Fresh, raw, now + 1, w1, w2), "rename", raw)

\* The delete button of the view, or the menu's delete entry
RequestDelete(c) ==
    /\ c # Null
    /\ c = view.comp \/ c = currentComp
    /\ BagCardinality(pendingConfirm) < MaxPending
    /\ Commit([Fresh EXCEPT !.pendingConfirm = @ (+) SetToBag({c})],
              "requestDelete", c)

\* The host answers a confirm-delete request
ConfirmAnswer(c, host, w1, w2) ==
    /\ BagIn(c, pendingConfirm)
    /\ LET s0 == [Fresh EXCEPT !.pendingConfirm = @ (-) SetToBag({c})]
       IN Commit(showDeleteCompModal(s0, c, host, now + 1, w1, w2),
                 "answer", c)

\* The confirm button of the in-app modal
ModalConfirm(w1, w2) ==
    /\ modal.open
    /\ Commit(deleteComp(Fresh, Null, now + 1, w1, w2),
              "modalConfirm", modal.target)

\* The cancel button of the in-app modal, or a click on its backdrop
ModalCancel ==
    /\ modal.open
    /\ Commit([Fresh EXCEPT !.modal = ModalHidden], "modalCancel", modal.target)

\* The 10 ms timer of deleteComp fires
SwitchTimerFire(c, w) ==
    /\ c \in pendingSwitch
    /\ Commit(switchToComp([Fresh EXCEPT !.pendingSwitch = @ \ {c}], c, now + 1, w),
              "deferredSwitch", c)

\* The menu's paste entry, with a payload on the clipboard
Import(comps, w) ==
    /\ Cardinality(DOMAIN notesData) + Len(comps) <= MaxComps
    /\ Commit(importCompsFromClipboard(Fresh, comps, now + 1, w), "import", comps)

\* The window is closed: main.js quits the app; the renderer has no handler
CloseWindow ==
    /\ ~closed
    /\ closed' = TRUE
    /\ last' = [op |-> "close", arg |-> Null]
    /\ UNCHANGED <<notesData, file, currentComp, editor, saveTimeout, view, nav, tagSel,
                   itemsInput, itemsTimer, staleItems, pendingSwitch, pendingConfirm,
                   modal, msg, imagesDir, pastes, now, horizon>>

Next ==
    \/ \E c \in nav, w \in WriteOutcomes : NavClick(c, w)
    \/ \E val \in NoteTexts : EditorInput(val)
    \/ \E w \in WriteOutcomes : DebounceFire(w)
    \/ \E text \in ItemTexts : ItemsInput(text)
    \/ \E w \in WriteOutcomes : ItemsEnter(w)
    \/ \E w \in WriteOutcomes : ItemsTimerFire(w)
    \/ \E cl \in staleItems, w \in WriteOutcomes : StaleItemsFire(cl, w)
    \/ \E val \in TagChoices, w \in WriteOutcomes : TagChange(val, w)
    \/ \E col \in Palette, w \in WriteOutcomes : ColorClick(col, w)
    \/ \E raw \in RawNames, w \in Writes3 : AddComp(raw, w[1], w[2], w[3])
    \/ \E raw \in RawNames, w \in Writes2 : Rename(raw, w[1], w[2])
    \/ \E c \in {view.comp, currentComp} : RequestDelete(c)
    \/ \E c \in BagToSet(pendingConfirm), host \in HostAnswers, w \in Writes2 :
           ConfirmAnswer(c, host, w[1], w[2])
    \/ \E w \in Writes2 : ModalConfirm(w[1], w[2])
    \/ ModalCancel
    \/ \E c \in pendingSwitch, w \in WriteOutcomes : SwitchTimerFire(c, w)
    \/ \E comps \in Payloads, w \in WriteOutcomes : Import(comps, w)

\* Every handler with every outcome of its writes, to a short horizon.
Spec == Init /\ [][Next]_vars

\* The window may be closed at any time: selecting, typing, saving, adding.
InitClose == Loaded(MaxClose)
NextClose ==
    \/ \E c \in nav, w \in WriteOutcomes : NavClick(c, w)
    \/ \E val \in NoteTexts : EditorInput(val)
    \/ \E w \in WriteOutcomes : DebounceFire(w)
    \/ \E raw \in RawNames, w \in Writes3 : AddComp(raw, w[1], w[2], w[3])
    \/ CloseWindow
SpecClose == InitClose /\ [][NextClose]_vars

\* Longer runs of select, rename, delete (with its confirmation and its
\* deferred switch) and import, in which no file write fails.
InitDeep == Loaded(MaxDeep)
NextDeep ==
    \/ \E c \in nav : NavClick(c, TRUE)
    \/ \E raw \in RawNames : Rename(raw, TRUE, TRUE)
    \/ \E c \in {view.comp, currentComp} : RequestDelete(c)
    \/ \E c \in BagToSet(pendingConfirm), host \in {"Delete", "Cancel"} :
           ConfirmAnswer(c, host, TRUE, TRUE)
    \/ \E c \in pendingSwitch : SwitchTimerFire(c, TRUE)
    \/ \E comps \in Payloads : Import(comps, TRUE)
SpecDeep == InitDeep /\ [][NextDeep]_vars

-----------------------------------------------------------------------------
(* Properties of rename *)

\* The rename input of the open comp holds a new, normalized, free name.
RenameApplies(raw) ==
    /\ view # NoView
    /\ currentComp = view.comp
    /\ IsObjectAt(notesData, view.comp)
    /\ toLowerCase(trim(raw)) # <<>>
    /\ toLowerCase(trim(raw)) # view.comp
    /\ ~HasKey(notesData, toLowerCase(trim(raw)))

\* The fields a rename, a delete rollback or an import must not touch.
KeptFields == {"notes", "items", "tags", "color"}
SameField(old, new, f) ==
    /\ (f \in DOMAIN old) <=> (f \in DOMAIN new)
    /\ f \in DOMAIN old => new[f] = old[f]

\* C1: a successful rename of the open comp (both file writes succeed) leaves
\* the old name in neither the store nor the file, the record under the new
\* name with its notes, items, tags and color, and the number of records as
\* it was.
C1_RenameMovesRecord ==
    [][\A raw \in RawNames :
         (RenameApplies(raw) /\ Rename(raw, TRUE, TRUE)) =>
            LET old == view.comp
                new == toLowerCase(trim(raw))
            IN /\ ~HasKey(notesData', old)
               /\ ~HasKey(file', old)
               /\ IsObjectAt(notesData', new)
               /\ \A f \in KeptFields : SameField(notesData[old], notesData'[new], f)
               /\ Cardinality(DOMAIN notesData') = Cardinality(DOMAIN notesData)]_vars

\* C9: a rename whose file write fails leaves the store as it was before the
\* rename (the old name with its record, the new name absent) and shows the
\* error.
C9_RenameRollsBack ==
    [][\A raw \in RawNames :
         (RenameApplies(raw) /\ Rename(raw, FALSE, TRUE)) =>
            /\ IsObjectAt(notesData', view.comp)
            /\ notesData'[view.comp] = notesData[view.comp]
            /\ ~HasKey(notesData', toLowerCase(trim(raw)))
            /\ msg' = "renameError"]_vars

-----------------------------------------------------------------------------
(* Properties of import *)

\* The i-th name of the sequence <name>-imported, <name>-imported-2, ...
ImportedName(name, i) ==
    IF i = 1 THEN name \o Imported ELSE name \o Imported \o <<"-", ToString(i)>>

\* The name an imported comp must get when keys are the names in use.
ExpectedTarget(keys, name) ==
    IF name \notin keys THEN name
    ELSE LET i == CHOOSE n \in 1..(Cardinality(keys) + 1) :
                      /\ ImportedName(name, n) \notin keys
                      /\ \A j \in 1..(n - 1) : ImportedName(name, j) \in keys
         IN ImportedName(name, i)

RECURSIVE ExpectedTargets(_, _)
ExpectedTargets(keys, comps) ==
    IF comps = <<>> THEN <<>>
    ELSE LET tg == ExpectedTarget(keys, Head(comps).name)
         IN <<tg>> \o ExpectedTargets(keys \cup {tg}, Tail(comps))

\* The notes an imported comp carries.
PayloadNotes(data) ==
    IF "str" \in DOMAIN data THEN data.str
    ELSE IF "notes" \in DOMAIN data THEN data.notes ELSE ""

-----------------------------------------------------------------------------
(* Properties of delete *)

\* The user confirms the deletion of c: the host answers "Delete" to a request
\* for c, or the confirm button of the modal opened for c is clicked.  (The
\* history variable last names the handler a step ran and its argument, so
\* that the other steps are told apart without running the handler.)
DeleteConfirmed(c, w1, w2) ==
    \/ last'.op = "answer" /\ last'.arg = c /\ ConfirmAnswer(c, "Delete", w1, w2)
    \/ last'.op = "modalConfirm" /\ modal.target = c /\ ModalConfirm(w1, w2)

\* C3: when the store holds one record only, a confirmed delete of it shows
\* the last-comp message and changes neither the store nor the file.
C3_LastCompKept ==
    [][\A w \in Writes2 :
         (/\ last'.op \in {"answer", "modalConfirm"}
          /\ DOMAIN notesData = {last'.arg}
          /\ IsObject(notesData[last'.arg])
          /\ DeleteConfirmed(last'.arg, w[1], w[2])) =>
            /\ notesData' = notesData
            /\ file' = file
            /\ msg' = "deleteLastComp"]_vars

\* The only record was to be deleted, the deletion was confirmed and refused.
C3_Witness ==
    /\ msg = "deleteLastComp"
    /\ last.op \in {"answer", "modalConfirm"}
    /\ DOMAIN notesData = {last.arg}
    /\ IsObjectAt(file, last.arg)

\* C10: when the write of a confirmed delete fails (the save before it having
\* succeeded), the record is in the store under its key with the items, tags
\* and color it had and with its notes (the editor's content if it is the
\* current comp), no other record is gone, the file still holds the record,
\* the delete error is shown, and the selection and the view are as before.
\* (Read: the step is no confirmation, or c has no record or is the only key,
\* or all of this holds after the step, or the step is not the confirmed
\* delete of c whose write fails.)
C10_DeleteRollsBack ==
    [][LET c == last'.arg IN
         \/ last'.op \notin {"answer", "modalConfirm"}
         \/ ~IsObjectAt(notesData, c)
         \/ Cardinality(DOMAIN notesData) <= 1
         \/ /\ IsObjectAt(notesData', c)
            /\ \A f \in KeptFields \ {"notes"} : SameField(notesData[c], notesData'[c], f)
            /\ notesData'[c].notes = IF c = currentComp THEN editor ELSE notesData[c].notes
            /\ DOMAIN notesData \subseteq DOMAIN notesData'
            /\ HasKey(file, c) => HasKey(file', c)
            /\ msg' = "deleteError"
            /\ currentComp' = currentComp
            /\ view' = view
            /\ pendingSwitch' = pendingSwitch
         \/ ~DeleteConfirmed(c, TRUE, FALSE)]_vars

\* The write of a confirmed delete of the current comp has failed, and the
\* comp is still there and still current.
C10_Witness ==
    /\ msg = "deleteError"
    /\ last.op \in {"answer", "modalConfirm"}
    /\ currentComp = last.arg
    /\ IsObjectAt(notesData, last.arg)
    /\ IsObjectAt(file, last.arg)

\* The delete requests that wait for an answer: those the host has not
\* answered and the one of the open modal.
Requests == BagCardinality(pendingConfirm) + (IF modal.open THEN 1 ELSE 0)

\* C7: an answer of the host other than "Delete" and a cancel of the modal
\* change neither the store nor the file; and a step that takes a key from the
\* store (other than the move of a rename and the reload of an import) is the
\* answer "Delete" to a request for that key or the click on the confirm button
\* of the modal opened for it, takes that key only, and leaves fewer requests
\* waiting than there were.
C7_DeleteOncePerRequest ==
    [][/\ \A host \in HostAnswers \ {"Delete"}, w \in Writes2 :
             (last'.op = "answer" /\ ConfirmAnswer(last'.arg, host, w[1], w[2])) =>
                notesData' = notesData /\ file' = file
       /\ (last'.op = "modalCancel" /\ ModalCancel) =>
             notesData' = notesData /\ file' = file
       /\ (/\ last'.op \notin {"rename", "import"}
           /\ DOMAIN notesData \ DOMAIN notesData' # {}) =>
             /\ DOMAIN notesData \ DOMAIN notesData' = {last'.arg}
             /\ \E w \in Writes2 : DeleteConfirmed(last'.arg, w[1], w[2])
             /\ Requests' < Requests]_vars

\* The host had no confirm-delete handler, the modal was opened, and the click
\* on its confirm button has deleted the current comp.
C7_Witness ==
    /\ last.op = "modalConfirm"
    /\ ~HasKey(notesData, last.arg)
    /\ ~HasKey(file, last.arg)
    /\ pendingSwitch # {}
    /\ ~modal.open

\* C8: when the dialog throws in the host, or the host has no confirm-delete
\* handler, the in-app modal is opened for the comp and nothing is deleted.
C8_FailureOpensModal ==
    [][\A host \in {"throws", "nohandler"}, w \in Writes2 :
         (last'.op = "answer" /\ ConfirmAnswer(last'.arg, host, w[1], w[2])) =>
            /\ modal' = [open |-> TRUE, target |-> last'.arg]
            /\ notesData' = notesData
            /\ file' = file]_vars

\* C4: no step takes the store from holding a record to holding none.
C4_StoreNeverEmptied ==
    [][DOMAIN notesData # {} => DOMAIN notesData' # {}]_vars

-----------------------------------------------------------------------------
(* Properties of the notes save *)

\* A step that leaves the view of the current comp, its save having been
\* written: a click in the navigation, the deferred switch, an add that goes
\* through, a confirmed delete that goes through.  (The write of a delete has failed
\* exactly when the step shows the delete error.)
LeavesView ==
    \/ last'.op = "switch" /\ NavClick(last'.arg, TRUE)
    \/ last'.op = "deferredSwitch" /\ SwitchTimerFire(last'.arg, TRUE)
    \/ /\ last'.op = "add"
       /\ trim(last'.arg) # <<>>
       /\ ~HasKey(notesData, toLowerCase(trim(last'.arg)))
       /\ \E w2, w3 \in BOOLEAN : AddComp(last'.arg, TRUE, w2, w3)
    \/ /\ last'.op \in {"answer", "modalConfirm"}
       /\ HasKey(notesData, last'.arg)
       /\ Cardinality(DOMAIN notesData) > 1
       /\ DeleteConfirmed(last'.arg, TRUE, msg' # "deleteError")

\* C5: after a step that leaves the view of the current comp X, which has a
\* record in the store (a switch, an add, a delete), X's record, unless it is
\* the one deleted, holds the editor's content in the store and in the file;
\* and in every step, the debounce timer's included, the notes of a record
\* change only to the editor's content and only for the current comp.  (The
\* first part reads: X has no record, or X's record holds the content after
\* the step, or the step is not one that leaves the view.)
C5_SaveBeforeLeaving ==
    [][/\ \/ ~IsObjectAt(notesData, currentComp)
          \/ /\ HasKey(notesData', currentComp) =>
                   /\ IsObjectAt(notesData', currentComp)
                   /\ notesData'[currentComp].notes = editor
                   /\ IsObjectAt(file', currentComp)
                   /\ file'[currentComp].notes = editor
             /\ ~HasKey(notesData', currentComp) =>
                   \E w \in Writes2 : DeleteConfirmed(currentComp, w[1], w[2])
          \/ ~LeavesView
       /\ \A k \in DOMAIN notesData \cap DOMAIN notesData' :
             (/\ IsObject(notesData[k]) /\ IsObject(notesData'[k])
              /\ notesData'[k].notes # notesData[k].notes) =>
                 k = currentComp /\ notesData'[k].notes = editor]_vars

\* The notes of a were edited, the user switched to b with the debounce timer
\* still pending, and a's record holds the edit in the store and in the file.
C5_Witness ==
    /\ last.op = "switch"
    /\ currentComp = NameB
    /\ saveTimeout > 0
    /\ IsObjectAt(notesData, NameA) /\ notesData[NameA].notes = "y"
    /\ IsObjectAt(file, NameA) /\ file[NameA].notes = "y"

\* C6: when the window has been closed with a notes save pending, the file
\* holds the editor's content as the notes of the current comp.
C6_CloseSaves ==
    (closed /\ saveTimeout > 0 /\ currentComp # Null) =>
        IsObjectAt(file, currentComp) /\ file[currentComp].notes = editor

-----------------------------------------------------------------------------
(* Properties of failed writes *)

\* A step in which a handler's write of the file throws: the debounced or the
\* forced save of the current comp, the items save, the tag change, the color
\* change, the write of an add, of a rename, of a delete, of an import.
WriteFails ==
    \/ last'.op = "debounce" /\ currentComp # Null /\ DebounceFire(FALSE)
    \/ last'.op = "switch" /\ currentComp # Null /\ NavClick(last'.arg, FALSE)
    \/ last'.op = "items" /\ (ItemsEnter(FALSE) \/ ItemsTimerFire(FALSE))
    \/ last'.op = "tag" /\ \E val \in TagChoices : TagChange(val, FALSE)
    \/ last'.op = "color" /\ \E col \in Palette : ColorClick(col, FALSE)
    \/ /\ last'.op = "add"
       /\ trim(last'.arg) # <<>>
       /\ ~HasKey(notesData, toLowerCase(trim(last'.arg)))
       /\ AddComp(last'.arg, TRUE, FALSE, TRUE)
    \/ last'.op = "rename" /\ RenameApplies(last'.arg) /\ Rename(last'.arg, FALSE, TRUE)
    \/ /\ last'.op \in {"answer", "modalConfirm"}
       /\ IsObjectAt(notesData, last'.arg)
       /\ Cardinality(DOMAIN notesData) > 1
       /\ DeleteConfirmed(last'.arg, TRUE, FALSE)
    \/ last'.op = "import" /\ Import(last'.arg, FALSE)

\* C11: a step in which a handler's write of the file throws shows a message.
C11_WriteFailureShown ==
    [][WriteFails => msg' # "none"]_vars

-----------------------------------------------------------------------------
(* Duplicate names *)

\* The name typed into the rename input normalizes to another key of the store
RenameDuplicate(raw) ==
    /\ view # NoView
    /\ toLowerCase(trim(raw)) # <<>>
    /\ toLowerCase(trim(raw)) # view.comp
    /\ HasKey(notesData, toLowerCase(trim(raw)))

\* C12: a rename whose normalized new name is another key of the store is
\* answered with the duplicate-name alert and changes neither the store in
\* memory nor the file.
C12_RenameDuplicateRejected ==
    [][(last'.op = "rename" /\ RenameDuplicate(last'.arg))
       => /\ msg' = "renameExists"
          /\ notesData' = notesData
          /\ file' = file]_vars

\* A rename to an existing name has just been rejected
C12_Witness ==
    /\ last.op = "rename"
    /\ msg = "renameExists"
    /\ view # NoView
    /\ HasKey(notesData, toLowerCase(trim(last.arg)))
    /\ toLowerCase(trim(last.arg)) # view.comp

\* The record addComp inserts at clock value t
FreshRecord(t) == [notes |-> "", items |-> <<>>, tags |-> <<>>, lastEdited |-> t]

\* C13: an add of a non-blank name whose writes succeed works on the trimmed,
\* lowercased name: if that is already a key, the duplicate-name alert is
\* shown and the store and the file stay as they were; otherwise the store
\* gains exactly that one key, with empty notes, items and tags and
\* lastEdited at the current time, and the file holds the new record.
C13_AddInsertsOneFreshRecord ==
    [][(/\ last'.op = "add"
        /\ trim(last'.arg) # <<>>
        /\ AddComp(last'.arg, TRUE, TRUE, TRUE))
       => LET k == toLowerCase(trim(last'.arg))
          IN IF HasKey(notesData, k)
             THEN /\ msg' = "addCompExists"
                  /\ notesData' = notesData
                  /\ file' = file
             ELSE /\ DOMAIN notesData' = DOMAIN notesData \cup {k}
                  /\ notesData'[k] = FreshRecord(now')
                  /\ HasKey(file', k)
                  /\ file'[k] = FreshRecord(now')]_vars

-----------------------------------------------------------------------------
(* Updates of a record *)

\* The operations that update the notes, the items, the tags or the color of
\* the record of the comp in last.arg
UpdateOps == {"debounce", "items", "staleItems", "tag", "color"}

\* C14: an update of notes, items, tags or color for a name that is not a key
\* of the store is refused with a message and leaves the store as it was.
C14_UpdateNeverCreates ==
    [][(/\ last'.op \in UpdateOps
        /\ last'.arg # Null
        /\ ~HasKey(notesData, last'.arg))
       => /\ notesData' = notesData
          /\ msg' # "none"]_vars

\* The tags and the color of a record as the renderer reads them: a record
\* without tags has none, a record without color has the default
TagsOf(rec) == IF "tags" \in DOMAIN rec THEN rec.tags ELSE <<>>
ColorOf(rec) == IF "color" \in DOMAIN rec THEN rec.color ELSE ""

\* The notes, the items, the tags or the color differ between two records
ContentDiffers(old, new) ==
    \/ old.notes # new.notes
    \/ old.items # new.items
    \/ TagsOf(old) # TagsOf(new)
    \/ ColorOf(old) # ColorOf(new)

\* C15: in every step, a record of the store whose notes, items, tags or color
\* change gets lastEdited equal to the clock value of the step, and no
\* record's lastEdited decreases.
C15_LastEditedFollowsClock ==
    [][\A k \in DOMAIN notesData \cap DOMAIN notesData' :
          (IsObject(notesData[k]) /\ IsObject(notesData'[k]))
          => /\ ContentDiffers(notesData[k], notesData'[k])
                => notesData'[k].lastEdited = now'
             /\ notesData'[k].lastEdited >= notesData[k].lastEdited]_vars

\* A tag change has just given the open record a new tag and the clock's value
C15_Witness ==
    /\ last.op = "tag"
    /\ tagSel # ""
    /\ IsObjectAt(notesData, last.arg)
    /\ notesData[last.arg].tags = <<tagSel>>
    /\ notesData[last.arg].lastEdited = now
    /\ now > 1

-----------------------------------------------------------------------------
(* Loading of any document: the values of JSON.parse, tagged with their    *)
(* type. An object carries its properties in o; an array carries its       *)
(* elements in a and the named properties assigned to it in o. A string    *)
(* that toISOString made carries the clock value in date.                  *)

MaxLoads == 3

JNull == [type |-> "null"]
JNum(n) == [type |-> "number", n |-> n]
JStr(text) == [type |-> "string", s |-> text]
JArr(elems) == [type |-> "array", a |-> elems, o |-> <<>>]
JObj(props) == [type |-> "object", o |-> props]
\* new Date().toISOString() at clock value t
toISOString(t) == [type |-> "string", date |-> t]

\* typeof v === 'object' for a value that is not null
TypeofObject(v) == v.type \in {"object", "array"}
\* typeof v === 'string'
TypeofString(v) == v.type = "string"
\* Array.isArray(v)
IsArray(v) == v.type = "array"
\* v is truthy
Truthy(v) ==
    CASE v.type = "null" -> FALSE
      [] v.type = "number" -> v.n # 0
      [] v.type = "string" -> ~("s" \in DOMAIN v /\ v.s = "")
      [] OTHER -> TRUE

\* normalizeValue that stamps lastEdited at every load: what C21 must tell apart
normalizeValue_AlwaysStamps(val, t) ==
    IF Truthy(val) /\ TypeofObject(val)
    THEN LET o1 == IF "notes" \in DOMAIN val.o THEN val.o
                   ELSE SetField(val.o, "notes", JStr(""))
             o2 == IF "items" \in DOMAIN o1 /\ IsArray(o1["items"]) THEN o1
                   ELSE SetField(o1, "items", JArr(<<>>))
             o3 == IF "tags" \in DOMAIN o2 /\ IsArray(o2["tags"]) THEN o2
                   ELSE SetField(o2, "tags", JArr(<<>>))
         IN [val EXCEPT !.o = SetField(o3, "lastEdited", toISOString(t))]
    ELSE JObj([notes |-> IF TypeofString(val) THEN val ELSE JStr(""),
               items |-> JArr(<<>>),
               tags |-> JArr(<<>>),
               lastEdited |-> toISOString(t)])

\* The body of the forEach of normalizeNotesData for one value of the store
normalizeValue(val, t) ==
    IF Truthy(val) /\ TypeofObject(val)
    THEN LET o1 == IF "notes" \in DOMAIN val.o THEN val.o
                   ELSE SetField(val.o, "notes", JStr(""))
             o2 == IF "items" \in DOMAIN o1 /\ IsArray(o1["items"]) THEN o1
                   ELSE SetField(o1, "items", JArr(<<>>))
             o3 == IF "tags" \in DOMAIN o2 /\ IsArray(o2["tags"]) THEN o2
                   ELSE SetField(o2, "tags", JArr(<<>>))
             o4 == IF "lastEdited" \in DOMAIN o3 /\ Truthy(o3["lastEdited"]) THEN o3
                   ELSE SetField(o3, "lastEdited", toISOString(t))
         IN [val EXCEPT !.o = o4]
    ELSE JObj([notes |-> IF TypeofString(val) THEN val ELSE JStr(""),
               items |-> JArr(<<>>),
               tags |-> JArr(<<>>),
               lastEdited |-> toISOString(t)])

\* What data/notes.json is when loadNotes runs: missing, a text JSON.parse
\* rejects, or a text JSON.parse turns into doc
DiskMissing == [kind |-> "missing"]
DiskCorrupt == [kind |-> "corrupt"]
DiskJson(doc) == [kind |-> "json", doc |-> doc]

\* loadNotes for any file: the store in memory and the file afterwards. ok is
\* the outcome of the write of the empty store when the file is missing.
loadNotesOfDisk(disk, t, ok) ==
    CASE disk.kind = "missing" ->
             [notesData |-> EmptyStore,
              file |-> IF ok THEN DiskJson(JObj(EmptyStore)) ELSE disk]
      [] disk.kind = "corrupt" ->
             [notesData |-> EmptyStore, file |-> disk]
      [] OTHER ->
             LET doc == disk.doc
                 nd == IF ~Truthy(doc) \/ ~TypeofObject(doc) THEN EmptyStore ELSE doc.o
             IN [notesData |-> [k \in DOMAIN nd |-> normalizeValue(nd[k], t)],
                 file |-> disk]

\* The values a document holds under a comp name
RawValues ==
    {JNull, JNum(5), JStr("s"), JStr(""), JArr(<<JStr("x")>>),
     JObj(<<>>),
     JObj([notes |-> JStr("x"), items |-> JArr(<<JStr("Sword")>>),
           tags |-> JArr(<<JStr("Reroll")>>), lastEdited |-> toISOString(0),
           color |-> JStr("#4caf50")]),
     JObj([notes |-> JStr("x")]),
     JObj([notes |-> JNull]),
     JObj([notes |-> JNum(5), items |-> JStr("i"), tags |-> JNull,
           lastEdited |-> JNum(0)]),
     JObj([items |-> JArr(<<>>), lastEdited |-> JNum(5)]),
     JObj([tags |-> JObj(<<>>), lastEdited |-> JStr("abc")])}

\* The documents: objects with at most two comps, and values that are no object
RawDocuments ==
    {JObj(EmptyStore), JNull, JNum(5), JStr("s")}
    \cup {JObj(NameA :> v) : v \in RawValues}
    \cup {JObj((NameA :> v) @@ (NameB :> u)) : v \in RawValues, u \in RawValues}

DiskStates == {DiskMissing, DiskCorrupt} \cup {DiskJson(doc) : doc \in RawDocuments}

\* The renderer before DOMContentLoaded, with any file on disk
InitLoad ==
    /\ file \in DiskStates
    /\ notesData = EmptyStore
    /\ nav = {}
    /\ currentComp = Null
    /\ editor = ""
    /\ saveTimeout = 0
    /\ view = NoView
    /\ tagSel = ""
    /\ itemsInput = <<Seg("", "")>>
    /\ itemsTimer = FALSE
    /\ staleItems = {}
    /\ pendingSwitch = {}
    /\ pendingConfirm = EmptyBag
    /\ modal = ModalHidden
    /\ msg = "none"
    /\ imagesDir = {}
    /\ pastes = {}
    /\ now = 0
    /\ horizon = MaxLoads
    /\ closed = FALSE
    /\ last = [op |-> "start", arg |-> Null]

\* loadNotes(); createNavigation(): at DOMContentLoaded and after an import
LoadNotes(ok) ==
    /\ Commit(LET r == loadNotesOfDisk(file, now + 1, ok)
              IN [Fresh EXCEPT !.notesData = r.notesData,
                               !.file = r.file,
                               !.nav = DOMAIN r.notesData],
              "load", Null)

\* JSON.stringify(v, null, 2), as the value JSON.parse makes of the text: the
\* named properties assigned to an array are not written. (JSON.parse and
\* JSON.stringify keep the order of the properties, which the values do not
\* carry.)
RECURSIVE stringify(_)
stringify(v) ==
    CASE v.type = "object" -> [v EXCEPT !.o = [k \in DOMAIN v.o |-> stringify(v.o[k])]]
      [] v.type = "array" ->
             [type |-> "array", a |-> [i \in 1..Len(v.a) |-> stringify(v.a[i])],
              o |-> <<>>]
      [] OTHER -> v

\* The end of importCompsFromClipboard for a payload without comps: the write
\* of the store, then loadNotes() (lines 556-569)
resaveAndReload(s, t, ok) ==
    IF ~ok THEN [s EXCEPT !.msg = "importSaveError"]
    ELSE LET f1 == DiskJson(stringify(JObj(s.notesData)))
             r == loadNotesOfDisk(f1, t, TRUE)
         IN [s EXCEPT !.notesData = r.notesData,
                      !.file = r.file,
                      !.nav = DOMAIN r.notesData,
                      !.msg = "importDone"]

\* An import of a payload without comps
Resave(ok) ==
    /\ last.op # "start"
    /\ Commit(resaveAndReload(Fresh, now + 1, ok), "resave", Null)

NextLoad ==
    \/ \E ok \in WriteOutcomes : LoadNotes(ok)
    \/ \E ok \in WriteOutcomes : Resave(ok)

SpecLoad == InitLoad /\ [][NextLoad]_vars

-----------------------------------------------------------------------------
(* Properties of loading *)

\* A string that holds a timestamp
IsInstant(v) == TypeofString(v) /\ "date" \in DOMAIN v

\* The type each field of a record must have
ValidField(f, v) ==
    CASE f = "notes" -> TypeofString(v)
      [] f = "items" -> IsArray(v)
      [] f = "tags" -> IsArray(v)
      [] f = "lastEdited" -> IsInstant(v)

RequiredFields == {"notes", "items", "tags", "lastEdited"}

\* notes is a string, items and tags are arrays, lastEdited is a timestamp
WellTypedRecord(r) ==
    /\ TypeofObject(r)
    /\ \A f \in RequiredFields : f \in DOMAIN r.o /\ ValidField(f, r.o[f])

\* C16: after a load of a file that parses, every record of the store has a
\* string as notes, arrays as items and tags and a timestamp as lastEdited;
\* a value of the document that is a bare string has become a record with
\* that string as its notes, and every field of the document that had the
\* right type has kept its value.
C16_LoadNormalizes ==
    [][(last'.op = "load" /\ file.kind = "json")
       => /\ \A k \in DOMAIN notesData' : WellTypedRecord(notesData'[k])
          /\ (Truthy(file.doc) /\ TypeofObject(file.doc))
             => /\ DOMAIN notesData' = DOMAIN file.doc.o
                /\ \A k \in DOMAIN file.doc.o :
                      LET val == file.doc.o[k]
                          rec == notesData'[k]
                      IN /\ TypeofString(val) => rec.o["notes"] = val
                         /\ TypeofObject(val)
                            => \A f \in RequiredFields \cap DOMAIN val.o :
                                  ValidField(f, val.o[f]) => rec.o[f] = val.o[f]]_vars

\* C17: a load that finds the file missing or unparseable leaves the store
\* in memory empty and the empty store in the file.
C17_LoadResetsFile ==
    [][(last'.op = "load" /\ file.kind \in {"missing", "corrupt"} /\ LoadNotes(TRUE))
       => /\ notesData' = EmptyStore
          /\ file' = DiskJson(JObj(EmptyStore))]_vars

-----------------------------------------------------------------------------
(* Import of any clipboard text. The clipboard is empty, holds a text that  *)
(* JSON.parse rejects, or holds a text that JSON.parse turns into obj. The  *)
(* value of obj.comps is tagged with its type: an object carries its        *)
(* entries, a string its characters, an array its elements.                 *)

MaxImports == 2

ClipEmpty == [kind |-> "empty"]
ClipNotJson == [kind |-> "notJson"]
ClipJson(obj) == [kind |-> "json", obj |-> obj]

PNull == [type |-> "null"]
PNumber(n) == [type |-> "number", n |-> n]
PString(chars) == [type |-> "string", chars |-> chars]
PArray(elems) == [type |-> "array", a |-> elems]
PComps(entries) == [type |-> "object", entries |-> entries]
\* An object with the properties props (of comps and images)
PObject(props) == [type |-> "object", props |-> props]

\* v is truthy
PTruthy(v) ==
    CASE v.type = "null" -> FALSE
      [] v.type = "number" -> v.n # 0
      [] v.type = "string" -> v.chars # <<>>
      [] OTHER -> TRUE

\* The keys Object.entries gives the elements of a string or of an array
IndexKeys == <<"0", "1", "2">>

\* Object.entries(comps)
ObjectEntries(comps) ==
    CASE comps.type = "object" -> comps.entries
      [] comps.type = "string" ->
             [i \in 1..Len(comps.chars) |->
                 Entry(<<IndexKeys[i]>>, [str |-> comps.chars[i]])]
      [] comps.type = "array" ->
             [i \in 1..Len(comps.a) |-> Entry(<<IndexKeys[i]>>, comps.a[i])]
      [] OTHER -> <<>>

\* obj.comps || {}
CompsOf(obj) ==
    IF obj.type = "object" /\ "comps" \in DOMAIN obj.props /\ PTruthy(obj.props["comps"])
    THEN obj.props["comps"]
    ELSE PComps(<<>>)

\* importCompsFromClipboard from clipboard.readText() on
importClipboardText(s, clip, t, w) ==
    CASE clip.kind = "empty" -> [s EXCEPT !.msg = "clipboardEmpty"]
      [] clip.kind = "notJson" -> [s EXCEPT !.msg = "importNotJson"]
      [] OTHER ->
             IF clip.obj.type = "null"
             \* obj.comps throws a TypeError, caught by the outer catch
             THEN [s EXCEPT !.msg = "importFailed"]
             ELSE importCompsFromClipboard(s, ObjectEntries(CompsOf(clip.obj)), t, w)

\* The texts of the clipboard
ClipboardTexts ==
    {ClipEmpty, ClipNotJson,
     ClipJson(PNull), ClipJson(PNumber(5)), ClipJson(PString(<<"a", "b">>)),
     ClipJson(PObject(<<>>)),
     ClipJson(PObject([comps |-> PNull, images |-> PComps(<<>>)])),
     ClipJson(PObject([comps |-> PNumber(5), images |-> PComps(<<>>)])),
     ClipJson(PObject([comps |-> PString(<<"a", "b">>), images |-> PComps(<<>>)])),
     ClipJson(PObject([comps |-> PArray(<<RecImp>>), images |-> PComps(<<>>)])),
     ClipJson(PObject([comps |-> PComps(<<Entry(NameA, RecImp)>>)])),
     ClipJson(PObject([comps |-> PComps(<<Entry(NameA, RecImp)>>),
                       images |-> PComps(<<>>)])),
     ClipJson(PObject([comps |-> PComps(<<Entry(<<"A">>, RecImp)>>),
                       images |-> PComps(<<>>)])),
     ClipJson(PObject([comps |-> PComps(<<>>), images |-> PComps(<<>>)]))}

\* The import entry of the menu
ImportText(clip, w) ==
    /\ Cardinality(DOMAIN notesData) < MaxComps
    /\ Commit(importClipboardText(Fresh, clip, now + 1, w), "importText", clip)

InitImport == Loaded(MaxImports)

NextImport == \E clip \in ClipboardTexts, w \in WriteOutcomes : ImportText(clip, w)

SpecImport == InitImport /\ [][NextImport]_vars

\* The clipboard holds JSON of the shape {comps: {...}, images: {...}}
WellShaped(clip) ==
    /\ clip.kind = "json"
    /\ clip.obj.type = "object"
    /\ "props" \in DOMAIN clip.obj
    /\ {"comps", "images"} \subseteq DOMAIN clip.obj.props
    /\ clip.obj.props["comps"].type = "object"
    /\ clip.obj.props["images"].type = "object"

ImportErrors == {"clipboardEmpty", "importNotJson", "importFailed"}

\* C18: an import of a clipboard text that is no JSON, or JSON of another
\* shape than {comps: {...}, images: {...}}, is answered with an error and
\* leaves the store in memory and the file as they were (the write of the
\* file does not throw).
C18_MalformedImportRejected ==
    [][(/\ last'.op = "importText"
        /\ ~WellShaped(last'.arg)
        /\ ImportText(last'.arg, TRUE))
       => /\ msg' \in ImportErrors
          /\ notesData' = notesData
          /\ file' = file]_vars

-----------------------------------------------------------------------------
(* Search, tag filter and planner. Here every text (notes, items, tags,    *)
(* the search box, the planner input) is the sequence of its characters.   *)

MaxQueries == 2

\* text.includes(token)
includes(text, token) ==
    \E i \in 0..(Len(text) - Len(token)) : SubSeq(text, i + 1, i + Len(token)) = token

\* The index of the first ch in s, Len(s) + 1 when there is none
FirstIndex(s, ch) ==
    IF \E i \in 1..Len(s) : s[i] = ch
    THEN CHOOSE i \in 1..Len(s) : s[i] = ch /\ \A j \in 1..(i - 1) : s[j] # ch
    ELSE Len(s) + 1

\* html.replace(/<[^>]*>/g, ' '): a '<' with a later '>' starts a tag that
\* ends at the first such '>'
RECURSIVE replaceTags(_)
replaceTags(s) ==
    IF s = <<>> THEN <<>>
    ELSE IF Head(s) = "<" /\ FirstIndex(s, ">") <= Len(s)
    THEN <<" ">> \o replaceTags(SubSeq(s, FirstIndex(s, ">") + 1, Len(s)))
    ELSE <<Head(s)>> \o replaceTags(Tail(s))

\* s.replace(/\s+/g, ' ')
RECURSIVE collapseSpaces(_)
collapseSpaces(s) ==
    IF s = <<>> THEN <<>>
    ELSE IF Head(s) = " " THEN <<" ">> \o collapseSpaces(trimStart(s))
    ELSE <<Head(s)>> \o collapseSpaces(Tail(s))

stripHtml(html) ==
    IF html = <<>> THEN <<>>
    ELSE toLowerCase(trim(collapseSpaces(replaceTags(html))))

\* s.split(/\s+/).map(t => t.trim()).filter(Boolean)
RECURSIVE splitWords(_)
splitWords(s) ==
    LET t == trimStart(s)
        n == FirstIndex(t, " ")
    IN IF t = <<>> THEN <<>>
       ELSE <<SubSeq(t, 1, n - 1)>> \o splitWords(SubSeq(t, n, Len(t)))

getSearchTokens(query) ==
    IF query = <<>> THEN <<>> ELSE splitWords(toLowerCase(query))

\* arr.map(x => (x || '').toLowerCase())
LowerAll(arr) == [i \in 1..Len(arr) |-> toLowerCase(arr[i])]

\* arr.includes(x)
arrayIncludes(arr, x) == \E i \in 1..Len(arr) : arr[i] = x

\* compMatchesSearch with `some` token in place of `every` token: what C19
\* must tell apart
compMatchesSearch_AnyToken(nd, comp, query) ==
    IF query = <<>> \/ trim(query) = <<>> THEN TRUE
    ELSE LET tokens == getSearchTokens(query)
             compName == toLowerCase(comp)
             isObj == IsObjectAt(nd, comp)
             notesText == IF isObj THEN stripHtml(nd[comp].notes) ELSE <<>>
             items == IF isObj THEN LowerAll(nd[comp].items) ELSE <<>>
             tags == IF isObj THEN LowerAll(nd[comp].tags) ELSE <<>>
         IN \/ Len(tokens) = 0
            \/ \E n \in 1..Len(tokens) :
                  \/ includes(compName, tokens[n])
                  \/ includes(notesText, tokens[n])
                  \/ \E i \in 1..Len(items) : includes(items[i], tokens[n])
                  \/ \E i \in 1..Len(tags) : includes(tags[i], tokens[n])

compMatchesSearch(nd, comp, query) ==
    IF query = <<>> \/ trim(query) = <<>> THEN TRUE
    ELSE LET tokens == getSearchTokens(query)
             compName == toLowerCase(comp)
             isObj == IsObjectAt(nd, comp)
             notesText == IF isObj THEN stripHtml(nd[comp].notes) ELSE <<>>
             items == IF isObj THEN LowerAll(nd[comp].items) ELSE <<>>
             tags == IF isObj THEN LowerAll(nd[comp].tags) ELSE <<>>
         IN \/ Len(tokens) = 0
            \/ \A n \in 1..Len(tokens) :
                  \/ includes(compName, tokens[n])
                  \/ includes(notesText, tokens[n])
                  \/ \E i \in 1..Len(items) : includes(items[i], tokens[n])
                  \/ \E i \in 1..Len(tags) : includes(tags[i], tokens[n])

\* const filteredComps = compOrder.filter(...) of createNavigation
filteredComps(nd, searchQuery, activeTagFilter) ==
    LET Keep(comp) ==
            /\ (searchQuery # <<>> /\ trim(searchQuery) # <<>>)
               => compMatchesSearch(nd, comp, searchQuery)
            /\ (activeTagFilter # <<>> /\ trim(activeTagFilter) # <<>>)
               => arrayIncludes(IF IsObjectAt(nd, comp) THEN LowerAll(nd[comp].tags)
                                ELSE <<>>,
                                toLowerCase(activeTagFilter))
    IN SelectSeq(getCompOrder(nd), Keep)

\* input.split(',')
RECURSIVE splitComma(_)
splitComma(s) ==
    LET n == FirstIndex(s, ",")
    IN IF n > Len(s) THEN <<s>>
       ELSE <<SubSeq(s, 1, n - 1)>> \o splitComma(SubSeq(s, n + 1, Len(s)))

\* const matchingComps = Object.entries(notesData).filter(...): the names of
\* the entries kept (the items of every record of the stores here are arrays)
matchingComps(nd, input) ==
    LET parts == splitComma(input)
        NonEmpty(x) == x # <<>>
        selectedItems == SelectSeq([i \in 1..Len(parts) |-> trim(parts[i])], NonEmpty)
    IN {comp \in DOMAIN nd :
          /\ IsObject(nd[comp])
          /\ \A i \in 1..Len(selectedItems) :
                arrayIncludes(LowerAll(nd[comp].items), selectedItems[i])}

\* updatePlannerResults: whether the prompt to enter items is shown, and the
\* comps that are listed
updatePlannerResults(nd, value) ==
    LET input == toLowerCase(trim(value))
    IN IF input = <<>> THEN [prompt |-> TRUE, comps |-> {}]
       ELSE [prompt |-> FALSE, comps |-> matchingComps(nd, input)]

\* The records of the stores that are searched
QueryRecords ==
    {[notes |-> <<"a", "<", "b", ">", "C">>, items |-> << <<"A", "b">> >>,
      tags |-> << <<"C", "a">> >>, lastEdited |-> 0],
     [notes |-> <<>>, items |-> << <<"A", "b">>, <<"c">> >>, tags |-> <<>>,
      lastEdited |-> 0],
     [notes |-> <<"b", " ", " ", "a">>, items |-> <<>>, tags |-> << <<"c", "a">> >>,
      lastEdited |-> 0],
     [notes |-> <<"<", "c">>, items |-> << <<"c">> >>, tags |-> <<>>, lastEdited |-> 0]}

QueryStores ==
    UNION {[names -> QueryRecords] : names \in SUBSET {NameA, NameB, NameC}}

\* The texts of the search box, the values of the tag filter, the texts of
\* the planner input
SearchTexts ==
    {<<>>, <<" ">>, <<"a">>, <<"A", "B">>, <<"a", " ", "c">>, <<"b", " ", " ", "A">>,
     <<"a", "c">>, <<"a", " ", "x">>, <<"b">>}
TagFilters == {<<>>, <<"C", "a">>, <<"c", "a">>, <<"c">>}
PlannerTexts ==
    {<<>>, <<" ">>, <<",">>, <<"a", "b">>, <<"A", "b", ",", " ", "c">>,
     <<"a", "b", ",", "x">>, <<"a">>}

InitQuery ==
    /\ notesData \in QueryStores
    /\ file = notesData
    /\ nav = getCompOrder(notesData)
    /\ currentComp = Null
    /\ editor = ""
    /\ saveTimeout = 0
    /\ view = NoView
    /\ tagSel = ""
    /\ itemsInput = <<Seg("", "")>>
    /\ itemsTimer = FALSE
    /\ staleItems = {}
    /\ pendingSwitch = {}
    /\ pendingConfirm = EmptyBag
    /\ modal = ModalHidden
    /\ msg = "none"
    /\ imagesDir = {}
    /\ pastes = {}
    /\ now = 0
    /\ horizon = MaxQueries
    /\ closed = FALSE
    /\ last = [op |-> "load", arg |-> Null]

\* createNavigation() after the search box or the tag filter changed
CreateNavigation(q, f) ==
    /\ Commit([Fresh EXCEPT !.nav = filteredComps(notesData, q, f)],
              "query", [searchQuery |-> q, activeTagFilter |-> f])

\* An input event of the planner input; the step records what the planner shows
UpdatePlannerResults(value) ==
    /\ Commit(Fresh, "planner",
              [value |-> value, shown |-> updatePlannerResults(notesData, value)])

NextQuery ==
    \/ \E q \in SearchTexts, f \in TagFilters : CreateNavigation(q, f)
    \/ \E value \in PlannerTexts : UpdatePlannerResults(value)

SpecQuery == InitQuery /\ [][NextQuery]_vars

-----------------------------------------------------------------------------
(* Properties of search and planner *)

\* The maximal runs of s without the character sep
Runs(s, sep) ==
    {SubSeq(s, p[1], p[2]) :
        p \in {pp \in (1..Len(s)) \X (1..Len(s)) :
                 /\ pp[1] <= pp[2]
                 /\ \A i \in pp[1]..pp[2] : s[i] # sep
                 /\ (pp[1] = 1 \/ s[pp[1] - 1] = sep)
                 /\ (pp[2] = Len(s) \/ s[pp[2] + 1] = sep)}}

\* tok is, without regard to case, a substring of text
ContainsNoCase(text, tok) == includes(toLowerCase(text), toLowerCase(tok))

\* a and b are equal without regard to case
EqualNoCase(a, b) == toLowerCase(a) = toLowerCase(b)

\* The token is part of the name, of the notes without their tags, of an
\* item or of a tag
TokenMatches(name, rec, tok) ==
    \/ ContainsNoCase(name, tok)
    \/ ContainsNoCase(stripHtml(rec.notes), tok)
    \/ \E i \in 1..Len(rec.items) : ContainsNoCase(rec.items[i], tok)
    \/ \E i \in 1..Len(rec.tags) : ContainsNoCase(rec.tags[i], tok)

QueryExpected(nd, searchText, tagFilter) ==
    {name \in DOMAIN nd :
        /\ \/ searchText = <<>>
           \/ \A tok \in Runs(searchText, " ") : TokenMatches(name, nd[name], tok)
        /\ \/ tagFilter = <<>>
           \/ \E i \in 1..Len(nd[name].tags) : EqualNoCase(nd[name].tags[i], tagFilter)}

\* C19: the navigation built for a search text and a tag filter lists, in the
\* order of the names, exactly the comps for which every whitespace-separated
\* token of the search text is, without regard to case, a substring of the
\* name, of the notes without their tags, of an item or of a tag, and of
\* which some tag equals the tag filter without regard to case; an empty
\* search text or tag filter excludes nothing.
C19_QueryMatchesEveryToken ==
    last.op = "query"
    => /\ {nav[i] : i \in 1..Len(nav)}
          = QueryExpected(notesData, last.arg.searchQuery, last.arg.activeTagFilter)
       /\ \A i, j \in 1..Len(nav) : i < j => localeCompare(nav[i], nav[j]) < 0

\* A search for two tokens has listed some comps of the store and not others
C19_Witness ==
    /\ last.op = "query"
    /\ last.arg.searchQuery = <<"b", " ", " ", "A">>
    /\ last.arg.activeTagFilter = <<>>
    /\ Len(nav) >= 2
    /\ Len(nav) < Cardinality(DOMAIN notesData)

\* The item names of a planner text: its parts between commas, trimmed, not blank
OwnedItems(value) == {trim(part) : part \in Runs(value, ",")} \ {<<>>}

\* C20: the planner lists exactly the comps of which every owned item equals,
\* without regard to case, some entry of the comp's items.
C20_PlannerListsSupersets ==
    last.op = "planner"
    => last.arg.shown.comps
       = {name \in DOMAIN notesData :
             \A owned \in OwnedItems(last.arg.value) :
                \E i \in 1..Len(notesData[name].items) :
                   EqualNoCase(notesData[name].items[i], owned)}

-----------------------------------------------------------------------------
(* Properties of the serialization *)

\* C21: once the loaded store has been saved, loading the saved text and
\* saving again writes the same text.
C21_SerializationIdempotent ==
    [][(/\ last.op = "resave" /\ msg = "importDone"
        /\ last'.op = "resave" /\ msg' = "importDone")
       => file' = file]_vars

\* The text saved twice holds a record that the first load had to complete
C21_Witness ==
    /\ last.op = "resave"
    /\ msg = "importDone"
    /\ now = 3
    /\ file.kind = "json"
    /\ HasKey(file.doc.o, NameA)
    /\ file.doc.o[NameA].o["lastEdited"] = toISOString(1)

-----------------------------------------------------------------------------
(* Timers: the notes debounce, the items debounce of the current and of    *)
(* earlier views, the deferred switch of a delete; with selecting, editing *)
(* and confirmed deletes, and no write that fails. No add, rename or       *)
(* import: only a delete takes a key out of the store.                     *)

MaxTimers == 6

InitTimers == Loaded(MaxTimers)

NextTimers ==
    \/ \E c \in nav : NavClick(c, TRUE)
    \/ \E val \in NoteTexts : EditorInput(val)
    \/ DebounceFire(TRUE)
    \/ \E text \in ItemTexts : ItemsInput(text)
    \/ ItemsTimerFire(TRUE)
    \/ \E cl \in staleItems : StaleItemsFire(cl, TRUE)
    \/ \E c \in {view.comp, currentComp} : RequestDelete(c)
    \/ \E c \in BagToSet(pendingConfirm) : ConfirmAnswer(c, "Delete", TRUE, TRUE)
    \/ \E c \in pendingSwitch : SwitchTimerFire(c, TRUE)

SpecTimers == InitTimers /\ [][NextTimers]_vars

\* The steps that are the firing of a timer
TimerOps == {"debounce", "items", "staleItems", "deferredSwitch"}

\* C22: in runs where only a confirmed delete takes a name out of the store,
\* no firing of a timer brings a name into the store or into the file.
C22_DeletedStaysDeleted ==
    [][last'.op \in TimerOps
       => /\ DOMAIN notesData' \subseteq DOMAIN notesData
          /\ DOMAIN file' \subseteq DOMAIN file]_vars

\* C23: a save of the items of a comp that has a record, on Enter or by the
\* items timer of the current or of an earlier view, changes nothing but the
\* items and lastEdited of that record: its notes, tags and color and every
\* other record stay as they were.
C23_ItemsSaveTouchesOnlyItems ==
    [][(last'.op \in {"items", "staleItems"} /\ IsObjectAt(notesData, last'.arg))
       => /\ DOMAIN notesData' = DOMAIN notesData
          /\ \A f \in {"notes", "tags", "color"} :
                SameField(notesData[last'.arg], notesData'[last'.arg], f)
          /\ \A k \in DOMAIN notesData \ {last'.arg} : notesData'[k] = notesData[k]]_vars

-----------------------------------------------------------------------------
(* Invariants of the store *)

\* C24: every value of the store in memory is a record with notes, items,
\* tags and lastEdited.
C24_RecordsStructured ==
    \A k \in DOMAIN notesData :
        /\ IsObject(notesData[k])
        /\ RequiredFields \subseteq DOMAIN notesData[k]

\* C25: every key of the store is in lower case (the store starts so), so no
\* two keys differ by case only.
C25_KeysLowercase ==
    \A k \in DOMAIN notesData : k = toLowerCase(k)

\* A step in which a handler changes the store and none of its writes of the
\* file throws
WritesSucceed ==
    \/ last'.op = "debounce" /\ currentComp # Null /\ DebounceFire(TRUE)
    \/ last'.op = "items" /\ (ItemsEnter(TRUE) \/ ItemsTimerFire(TRUE))
    \/ last'.op = "staleItems" /\ \E cl \in staleItems : StaleItemsFire(cl, TRUE)
    \/ last'.op = "tag" /\ \E val \in TagChoices : TagChange(val, TRUE)
    \/ last'.op = "color" /\ \E col \in Palette : ColorClick(col, TRUE)
    \/ /\ last'.op = "add"
       /\ trim(last'.arg) # <<>>
       /\ ~HasKey(notesData, toLowerCase(trim(last'.arg)))
       /\ AddComp(last'.arg, TRUE, TRUE, TRUE)
    \/ last'.op = "rename" /\ RenameApplies(last'.arg) /\ Rename(last'.arg, TRUE, TRUE)
    \/ /\ last'.op \in {"answer", "modalConfirm"}
       /\ IsObjectAt(notesData, last'.arg)
       /\ Cardinality(DOMAIN notesData) > 1
       /\ msg' = "none"
       /\ DeleteConfirmed(last'.arg, TRUE, TRUE)
    \/ last'.op = "import" /\ Import(last'.arg, TRUE)

\* C26: after a step in which a handler changes the store and no write
\* throws, the file holds the serialization of the store in memory.
C26_FileEqualsStore ==
    [][WritesSucceed => file' = Serialize(notesData')]_vars


-----------------------------------------------------------------------------
(* The notes debounce: a comp is opened and its notes are edited in bursts, *)
(* every write succeeds, and the event loop runs a pending timer once its   *)
(* delay has passed.                                                        *)

MaxBurst == 6

InitDebounce == Loaded(MaxBurst)

\* The last tick of the clock is kept for a timer that is still pending
NextDebounce ==
    \/ \E c \in nav : now + 1 < horizon /\ NavClick(c, TRUE)
    \/ \E val \in NoteTexts : now + 1 < horizon /\ EditorInput(val)
    \/ DebounceFire(TRUE)

SpecDebounce == InitDebounce /\ [][NextDebounce]_vars /\ WF_vars(DebounceFire(TRUE))

\* The save of the notes timer has written the editor's content
SavedEditor ==
    /\ IsObjectAt(notesData, currentComp) /\ notesData[currentComp].notes = editor
    /\ IsObjectAt(file, currentComp) /\ file[currentComp].notes = editor

\* C27: at most one notes-save timer is pending; an edit of the notes leaves
\* exactly one pending, the one it started; the firing of the timer leaves none
\* pending and, with a comp open, the store and the file hold the editor's
\* content as of the last edit; and once a timer is pending such a save follows.
C27_DebounceCancelAndRestart ==
    /\ [](saveTimeout <= 1)
    /\ [][last'.op = "type" => saveTimeout' = 1 /\ UNCHANGED <<notesData, file>>]_vars
    /\ [][last'.op = "debounce"
          => /\ saveTimeout' = 0
             /\ editor' = editor
             /\ currentComp # Null => SavedEditor']_vars
    /\ (saveTimeout > 0) ~> (last.op = "debounce" /\ saveTimeout = 0 /\ SavedEditor)

\* The timer has fired after the edits of comp a and its save wrote the last of them
C27_Witness ==
    /\ last.op = "debounce"
    /\ saveTimeout = 0
    /\ now = 4
    /\ currentComp = NameA
    /\ editor = "y"
    /\ SavedEditor
    /\ notesData[NameA].lastEdited = 4


-----------------------------------------------------------------------------
(* The images of an import.  A text is the sequence of its pieces: "../" and *)
(* "data/images/" are pieces, and so are the parts of a file name.           *)

MaxImageImports == 2

Extensions == {".png"}

\* path.extname(name)
extname(name) ==
    IF Len(name) > 1 /\ name[Len(name)] \in Extensions THEN <<name[Len(name)]>> ELSE <<>>

\* path.basename(name, ext)
basename(name, ext) == SubSeq(name, 1, Len(name) - Len(ext))

\* `${base}-imported-${Date.now()}${ext}`
collisionName(name, t) ==
    basename(name, extname(name)) \o <<"-imported-", ToString(t)>> \o extname(name)

\* The loop over Object.entries(images): the files of data/images afterwards and
\* writtenImages; the images of bad are those whose write throws
RECURSIVE writeImages(_, _, _, _)
writeImages(dir, images, bad, t) ==
    IF images = <<>> THEN [dir |-> dir, written |-> <<>>]
    ELSE LET name == Head(images)
             outName == IF name \in dir THEN collisionName(name, t) ELSE name
         IN IF name \in bad THEN writeImages(dir, Tail(images), bad, t)
            ELSE LET rest == writeImages(dir \cup {outName}, Tail(images), bad, t)
                 IN [dir |-> rest.dir,
                     written |-> <<[orig |-> name, new |-> outName]>> \o rest.written]

\* s.split(pat).join(rep), pat not empty
RECURSIVE splitJoin(_, _, _)
splitJoin(s, pat, rep) ==
    IF Len(s) < Len(pat) THEN s
    ELSE IF SubSeq(s, 1, Len(pat)) = pat
         THEN rep \o splitJoin(SubSeq(s, Len(pat) + 1, Len(s)), pat, rep)
         ELSE <<Head(s)>> \o splitJoin(Tail(s), pat, rep)

ImagesPath == <<"data/images/">>
UpImagesPath == <<"../", "data/images/">>

\* The three replacements for one written image
rewriteImage(notesHtml, orig, newName) ==
    LET h1 == splitJoin(notesHtml, UpImagesPath \o orig, UpImagesPath \o newName)
        h2 == splitJoin(h1, ImagesPath \o orig, UpImagesPath \o newName)
    IN splitJoin(h2, orig, newName)

\* Object.entries(writtenImages).forEach(...)
RECURSIVE rewriteNotes(_, _)
rewriteNotes(notesHtml, written) ==
    IF written = <<>> THEN notesHtml
    ELSE rewriteNotes(rewriteImage(notesHtml, Head(written).orig, Head(written).new),
                      Tail(written))

\* data && typeof data === 'object' && data.notes && Object.keys(writtenImages).length
rewriteEntry(entry, written) ==
    IF /\ IsJsonObject(entry.data)
       /\ "notes" \in DOMAIN entry.data
       /\ entry.data.notes # <<>>
       /\ written # <<>>
    THEN Entry(entry.name, [entry.data EXCEPT !.notes = rewriteNotes(@, written)])
    ELSE entry

\* importCompsFromClipboard for a payload {comps, images}
importWithImages(s, comps, images, bad, t, w) ==
    LET wi == writeImages(s.imagesDir, images, bad, t)
        comps1 == [i \in 1..Len(comps) |-> rewriteEntry(comps[i], wi.written)]
    IN importCompsFromClipboard([s EXCEPT !.imagesDir = wi.dir], comps1, t, w)

\* The images of the payloads and of data/images
ImgP == <<"p", ".png">>
ImgQ == <<"q", ".png">>
ImagePayloads == {<<>>, <<ImgP>>, <<ImgP, ImgQ>>}
ImageDirs == {{}, {ImgP}, {ImgP, ImgQ}}

\* The notes of the payloads
NotesHtml ==
    {<<"t">>,
     <<"t", "../", "data/images/", "p", ".png", "u">>,
     <<"data/images/", "p", ".png">>,
     <<"../", "data/images/", "p", ".png", "t", "../", "data/images/", "q", ".png">>}

InitImages ==
    /\ Started(MaxImageImports)
    /\ file = EmptyStore
    /\ imagesDir \in ImageDirs

\* The menu's paste entry, with a payload of one comp and its images
ImportImages(name, html, images, bad, w) ==
    /\ Cardinality(DOMAIN notesData) < MaxComps
    /\ Commit(importWithImages(Fresh, <<Entry(name, [notes |-> html])>>, images, bad,
                               now + 1, w),
              "importImages",
              [name |-> name, notes |-> html, images |-> images, bad |-> bad, w |-> w])

NextImages ==
    \E name \in {NameA}, html \in NotesHtml, images \in ImagePayloads,
       bad \in {{}, {ImgP}}, w \in BOOLEAN :
       ImportImages(name, html, images, bad, w)

SpecImages == InitImages /\ [][NextImages]_vars


-----------------------------------------------------------------------------
(* Properties of the images of an import *)

\* The text h starts with the text pat
StartsWith(h, pat) == Len(pat) <= Len(h) /\ SubSeq(h, 1, Len(pat)) = pat

\* The text h with every reference ../data/images/<old> or data/images/<old>
\* to a written image replaced by ../data/images/<new>, the rest as it is
RECURSIVE ExpectedNotes(_, _)
ExpectedNotes(h, written) ==
    IF h = <<>> THEN <<>>
    ELSE LET up == {i \in 1..Len(written) : StartsWith(h, UpImagesPath \o written[i].orig)}
             plain == {i \in 1..Len(written) : StartsWith(h, ImagesPath \o written[i].orig)}
         IN IF up # {}
            THEN LET i == CHOOSE k \in up : TRUE
                     n == Len(UpImagesPath \o written[i].orig)
                 IN UpImagesPath \o written[i].new
                       \o ExpectedNotes(SubSeq(h, n + 1, Len(h)), written)
            ELSE IF plain # {}
            THEN LET i == CHOOSE k \in plain : TRUE
                     n == Len(ImagesPath \o written[i].orig)
                 IN UpImagesPath \o written[i].new
                       \o ExpectedNotes(SubSeq(h, n + 1, Len(h)), written)
            ELSE <<Head(h)>> \o ExpectedNotes(Tail(h), written)

\* C28: after an import whose write of the notes file succeeds, the notes of
\* the imported record are the notes of the payload with every reference
\* ../data/images/<old> or data/images/<old> to an image that the import wrote
\* reading ../data/images/<new>, <new> the name the image was written under
\* (<old> itself when nothing was in its way); a reference ../data/images/<old>
\* to an image that kept its name is as it was.
C28_ImageRefsRewritten ==
    [][(last'.op = "importImages" /\ last'.arg.w)
       => LET a == last'.arg
              target == importTarget(notesData, a.name)
              written == writeImages(imagesDir, a.images, a.bad, now + 1).written
          IN /\ IsObjectAt(notesData', target)
             /\ notesData'[target].notes = ExpectedNotes(a.notes, written)]_vars

-----------------------------------------------------------------------------
(* Properties of the current comp *)

\* C29: between handlers and timer callbacks, the current comp is null or a key
\* of the store.
C29_CurrentCompIsKey == currentComp = Null \/ HasKey(notesData, currentComp)

-----------------------------------------------------------------------------
(* The paste of an image into the editor.  A paste in flight is a record:   *)
(* comp is the comp that was open at the paste event (kept as history),     *)
(* stage says which callback comes next.                                    *)

MaxPasteClock == 6
MaxPastes == 2

\* `image-${timestamp}.png`
imageFilename(t) == "image-" \o ToString(t) \o ".png"

\* The <img> element of the pasted image
imgTag(filename) == "<img src=\"../data/images/" \o filename \o "\">"

\* The paste listener with an image on the clipboard: reader.readAsDataURL(blob)
pasteImage(s, t) ==
    [s EXCEPT !.pastes = @ \cup {[stage |-> "reading", comp |-> s.currentComp, at |-> t]}]

\* reader.onload up to the await: safeInvoke('save-image', base64data, filename)
readerOnload(s, p, t) ==
    [s EXCEPT !.pastes = (@ \ {p}) \cup
                  {[stage |-> "saving", comp |-> p.comp, at |-> p.at,
                    filename |-> imageFilename(t)]}]

\* main.js, the save-image handler: the file is written, or the write throws
saveImage(s, p, ok) ==
    [s EXCEPT !.imagesDir = IF ok THEN @ \cup {p.filename} ELSE @,
              !.pastes = (@ \ {p}) \cup
                  {[stage |-> "saved", comp |-> p.comp, at |-> p.at,
                    filename |-> p.filename, success |-> ok]}]

\* reader.onload after the await: with the selection in the editor, insertHTML
\* puts the element into the editor (where the caret is; here, at its end)
pasteContinue(s, p, sel) ==
    LET s1 == [s EXCEPT !.pastes = @ \ {p}]
    IN IF ~p.success THEN [s1 EXCEPT !.msg = "imageSaveError"]
       ELSE debouncedSave(IF sel THEN [s1 EXCEPT !.editor = @ \o imgTag(p.filename)]
                          ELSE s1)

InitPaste == Loaded(MaxPasteClock)

\* A paste event of the editor with an image on the clipboard
PasteImage ==
    /\ view # NoView
    /\ Cardinality(pastes) < MaxPastes
    /\ Commit(pasteImage(Fresh, now + 1), "paste", currentComp)

\* The FileReader has read the image
ReaderLoad(p) ==
    /\ p.stage = "reading"
    /\ Commit(readerOnload(Fresh, p, now + 1), "readerLoad", p.comp)

\* The main process handles save-image
SaveImage(p, ok) ==
    /\ p.stage = "saving"
    /\ Commit(saveImage(Fresh, p, ok), "saveImage", p.comp)

\* The answer of save-image arrives; sel: the selection is in the editor
PasteDone(p, sel) ==
    /\ p.stage = "saved"
    /\ Commit(pasteContinue(Fresh, p, sel), "pasteDone",
              [comp |-> p.comp, filename |-> p.filename, success |-> p.success,
               sel |-> sel])

NextPaste ==
    \/ \E c \in nav : NavClick(c, TRUE)
    \/ PasteImage
    \/ \E p \in pastes : ReaderLoad(p)
    \/ \E p \in pastes, ok \in BOOLEAN : SaveImage(p, ok)
    \/ \E p \in pastes, sel \in BOOLEAN : PasteDone(p, sel)
    \/ DebounceFire(TRUE)

SpecPaste == InitPaste /\ [][NextPaste]_vars

-----------------------------------------------------------------------------
(* Properties of the image paste *)

\* C30: when the image of a paste is put into the editor, the editor shows the
\* notes of the comp that was open at the paste event.
C30_ImageGoesToPastedComp ==
    [][(last'.op = "pasteDone" /\ editor' # editor) => currentComp = last'.arg.comp]_vars

====
